----------------------------- MODULE ScreenProofs -----------------------------
(***************************************************************************)
(* Proofs about the programs of the screen: the touch test program, the    *)
(* console that it draws on, and the demonstrations of the frame buffer.   *)
(*                                                                         *)
(* The crosshair is drawn by inverting what lies under it, so what is      *)
(* proved is that the screen always shows the colours of the picture       *)
(* without it, inverted at the pixels of the crosshair and nowhere else:   *)
(* inverting twice is nothing.  For the buttons the invariant is that one  *)
(* square at most is active, by the order in which the loop of main()      *)
(* handles them.  The console has a section of its own.                    *)
(*                                                                         *)
(* A demonstration is the list of its calls, so its invariant says what    *)
(* the list can be: draw_flash_block and draw_flash_BMP are in one of a    *)
(* few phases, in each of which one screen shows a whole picture while the *)
(* points still to be drawn complete one on the other.                     *)
(***************************************************************************)
EXTENDS TouchTest, Console, FbDemos, FiniteSetTheorems, SequenceTheorems, TLAPS

IsScreen(s) == s \in [Pixels -> [rgb : SUBSET Bits, transp : BOOLEAN]]
Opaque(s) == \A p \in Visible : s[p].transp = TRUE
SameColours(s, t) == \A p \in Pixels : s[p].rgb = t[p].rgb

\* The visible screen is a part of the frame buffer.
LEMMA VisibleInPixels == Visible \subseteq Pixels
  <1>1. 0 .. Yres - 1 \subseteq 0 .. YresVirtual - 1
    BY TouchTestAssumption
  <1> QED BY <1>1 DEF Visible, Pixels

\* Every entry of the colour map is a set of bits.
LEMMA ColoursAreBits == \A k \in 0 .. 5 : colormap[k] \in SUBSET Bits
  BY DEF colormap, Bits

\* Drawing yields a screen, keeps opaque pixels opaque, and where two
\* screens show the same colours they still do.
LEMMA SetKeeps ==
  ASSUME NEW s, NEW t, NEW S, NEW k \in 0 .. 5, IsScreen(s), IsScreen(t)
  PROVE  /\ IsScreen(Set(s, S, k))
         /\ Opaque(s) => Opaque(Set(s, S, k))
         /\ SameColours(s, t) => SameColours(Set(s, S, k), Set(t, S, k))
  <1>1. colormap[k] \in SUBSET Bits BY ColoursAreBits
  <1> DEFINE c == colormap[k]
  <1>2. c \in SUBSET Bits BY <1>1
  <1> HIDE DEF c
  <1>3. IsScreen(Set(s, S, k))
    <2>1. Set(s, S, k) = [p \in Pixels |-> IF p \in S THEN [rgb |-> c, transp |-> TRUE]
                                           ELSE s[p]]
      BY DEF Set, c
    <2> QED BY <2>1, <1>2 DEF IsScreen
  <1>4. Opaque(s) => Opaque(Set(s, S, k))
    BY VisibleInPixels DEF Opaque, Set
  <1>5. SameColours(s, t) => SameColours(Set(s, S, k), Set(t, S, k))
    BY DEF SameColours, Set
  <1> QED BY <1>3, <1>4, <1>5

\* The same of drawing in exclusive-or mode.
LEMMA SetXorKeeps ==
  ASSUME NEW s, NEW t, NEW S, NEW k \in 0 .. 5, IsScreen(s), IsScreen(t)
  PROVE  /\ IsScreen(SetXor(s, S, k))
         /\ Opaque(s) => Opaque(SetXor(s, S, k))
         /\ SameColours(s, t) => SameColours(SetXor(s, S, k), SetXor(t, S, k))
  <1>1. colormap[k] \in SUBSET Bits BY ColoursAreBits
  <1> DEFINE c == colormap[k]
  <1>2. c \in SUBSET Bits BY <1>1
  <1> HIDE DEF c
  <1>3. IsScreen(SetXor(s, S, k))
    <2>1. SetXor(s, S, k) =
            [p \in Pixels |-> IF p \in S THEN [rgb |-> Xor(s[p].rgb, c), transp |-> TRUE]
                              ELSE s[p]]
      BY DEF SetXor, c
    <2>2. \A p \in Pixels : Xor(s[p].rgb, c) \in SUBSET Bits
      BY <1>2 DEF IsScreen, Xor
    <2> QED BY <2>1, <2>2 DEF IsScreen
  <1>4. Opaque(s) => Opaque(SetXor(s, S, k))
    BY VisibleInPixels DEF Opaque, SetXor
  <1>5. SameColours(s, t) => SameColours(SetXor(s, S, k), SetXor(t, S, k))
    BY DEF SameColours, SetXor
  <1> QED BY <1>3, <1>4, <1>5

\* Exclusive-or with two colours, twice, changes nothing.
LEMMA XorTwice ==
  ASSUME NEW x, NEW a, NEW b
  PROVE  Xor(Xor(x, a), a) = x /\ Xor(Xor(Xor(Xor(x, a), b), a), b) = x
  <1>1. Xor(Xor(x, a), a) = x BY DEF Xor
  <1>2. Xor(Xor(Xor(Xor(x, a), b), a), b) = x
    <2>1. \A e : e \in Xor(x, a) <=> ((e \in x) # (e \in a)) BY DEF Xor
    <2>2. \A e : e \in Xor(Xor(x, a), b) <=> ((e \in Xor(x, a)) # (e \in b)) BY DEF Xor
    <2>3. \A e : e \in Xor(Xor(Xor(x, a), b), a)
                 <=> ((e \in Xor(Xor(x, a), b)) # (e \in a)) BY DEF Xor
    <2>4. \A e : e \in Xor(Xor(Xor(Xor(x, a), b), a), b)
                 <=> ((e \in Xor(Xor(Xor(x, a), b), a)) # (e \in b)) BY DEF Xor
    <2>5. \A e : e \in Xor(Xor(Xor(Xor(x, a), b), a), b) <=> e \in x
      BY <2>1, <2>2, <2>3, <2>4
    <2> QED BY <2>5
  <1> QED BY <1>1, <1>2

\* A crosshair yields a screen, keeps what is opaque and what looks the
\* same; a second one at the same place gives the colours back.
LEMMA CrossKeeps ==
  ASSUME NEW s, NEW t, NEW m, IsScreen(s), IsScreen(t)
  PROVE  /\ IsScreen(Crossed(s, m))
         /\ Opaque(s) => Opaque(Crossed(s, m))
         /\ SameColours(s, t) => SameColours(Crossed(s, m), Crossed(t, m))
         /\ SameColours(Crossed(Crossed(s, m), m), s)
  <1>1. CASE m = Draw
    BY <1>1 DEF Crossed, SameColours
  <1>2. CASE m # Draw
    <2> DEFINE A == Arms(at) \cap Pixels
               C == Corners(at) \cap Pixels
    <2>1. \A x : Crossed(x, m) = SetXor(SetXor(x, A, 2), C, 3)
      BY <1>2 DEF Crossed, PutCross
    <2> HIDE DEF A, C
    <2>2. /\ IsScreen(SetXor(s, A, 2)) /\ IsScreen(SetXor(t, A, 2))
          /\ Opaque(s) => Opaque(SetXor(s, A, 2))
          /\ SameColours(s, t) => SameColours(SetXor(s, A, 2), SetXor(t, A, 2))
      BY SetXorKeeps
    <2> DEFINE u == SetXor(s, A, 2)
               v == SetXor(t, A, 2)
    <2> HIDE DEF u, v
    <2>3. IsScreen(u) /\ IsScreen(v) BY <2>2 DEF u, v
    <2>4. /\ IsScreen(SetXor(u, C, 3))
          /\ Opaque(u) => Opaque(SetXor(u, C, 3))
          /\ SameColours(u, v) => SameColours(SetXor(u, C, 3), SetXor(v, C, 3))
      BY <2>3, SetXorKeeps
    <2>5. SameColours(Crossed(Crossed(s, m), m), s)
      <3> SUFFICES ASSUME NEW p \in Pixels
                   PROVE  Crossed(Crossed(s, m), m)[p].rgb = s[p].rgb
        BY DEF SameColours
      <3> DEFINE a == IF p \in A THEN colormap[2] ELSE {}
                 b == IF p \in C THEN colormap[3] ELSE {}
      <3>1. \A x : SetXor(x, A, 2)[p].rgb = Xor(x[p].rgb, a)
        BY DEF SetXor, Xor
      <3>2. \A x : SetXor(x, C, 3)[p].rgb = Xor(x[p].rgb, b)
        BY DEF SetXor, Xor
      <3> HIDE DEF a, b
      <3>3. Crossed(Crossed(s, m), m)[p].rgb = Xor(Xor(Xor(Xor(s[p].rgb, a), b), a), b)
        BY <2>1, <3>1, <3>2
      <3> QED BY <3>3, XorTwice
    <2> QED BY <2>1, <2>2, <2>4, <2>5 DEF u, v
  <1> QED BY <1>1, <1>2

\* What an iteration draws, in terms of what is drawn upon: all of it by Set.
LEMMA ButtonsKeep ==
  ASSUME NEW s, NEW t, NEW B, NEW act, IsScreen(s), IsScreen(t)
  PROVE  /\ IsScreen(DrawButtons(s, B, act))
         /\ Opaque(s) => Opaque(DrawButtons(s, B, act))
         /\ SameColours(s, t) => SameColours(DrawButtons(s, B, act), DrawButtons(t, B, act))
  <1> DEFINE P == {ButtonAt[b] : b \in B \ act}
             Q == {ButtonAt[b] : b \in B \cap act}
             u == Set(s, P, 4)
             v == Set(t, P, 4)
  <1>0. /\ DrawButtons(s, B, act) = Set(u, Q, 5)
        /\ DrawButtons(t, B, act) = Set(v, Q, 5)
    BY DEF DrawButtons
  <1> HIDE DEF P, Q
  <1>1. /\ IsScreen(u) /\ IsScreen(v)
        /\ Opaque(s) => Opaque(u)
        /\ SameColours(s, t) => SameColours(u, v)
    BY SetKeeps
  <1> HIDE DEF u, v
  <1> QED BY <1>0, <1>1, SetKeeps

LEMMA RefreshKeeps ==
  ASSUME NEW s, NEW t, NEW act, IsScreen(s), IsScreen(t)
  PROVE  /\ IsScreen(RefreshScreen(s, act))
         /\ Opaque(RefreshScreen(s, act))
         /\ SameColours(s, t) => SameColours(RefreshScreen(s, act), RefreshScreen(t, act))
  <1> DEFINE u == Set(s, Visible, 0)
             v == Set(t, Visible, 0)
             x == Set(u, Text, 2)
             y == Set(v, Text, 2)
  <1>0. /\ RefreshScreen(s, act) = DrawButtons(x, Buttons, act)
        /\ RefreshScreen(t, act) = DrawButtons(y, Buttons, act)
    BY DEF RefreshScreen
  <1>1. Opaque(u) BY VisibleInPixels DEF Opaque, Set
  <1>2. IsScreen(u) /\ IsScreen(v) /\ (SameColours(s, t) => SameColours(u, v))
    BY SetKeeps
  <1> HIDE DEF u, v
  <1>3. /\ IsScreen(x) /\ IsScreen(y) /\ Opaque(x)
        /\ SameColours(s, t) => SameColours(x, y)
    BY <1>1, <1>2, SetKeeps
  <1> HIDE DEF x, y
  <1> QED BY <1>0, <1>3, ButtonsKeep

LEMMA SquareKeeps ==
  ASSUME NEW s, NEW t, NEW pos, NEW act, IsScreen(s), IsScreen(t)
  PROVE  /\ IsScreen(Square(s, pos, act))
         /\ Opaque(s) => Opaque(Square(s, pos, act))
         /\ SameColours(s, t) => SameColours(Square(s, pos, act), Square(t, pos, act))
  <1> DEFINE P == Rectangle(old, <<old[1] + Side, old[2] + Side>>)
             Q == Rectangle(pos, <<pos[1] + Side, pos[2] + Side>>)
             s1 == Set(s, P, 0)
             t1 == Set(t, P, 0)
             s2 == Set(s1, Text, 2)
             t2 == Set(t1, Text, 2)
             s3 == DrawButtons(s2, Buttons, act)
             t3 == DrawButtons(t2, Buttons, act)
  <1>0. Square(s, pos, act) = Set(s3, Q, 1) /\ Square(t, pos, act) = Set(t3, Q, 1)
    BY DEF Square
  <1> HIDE DEF P, Q
  <1>1. /\ IsScreen(s1) /\ IsScreen(t1)
        /\ Opaque(s) => Opaque(s1)
        /\ SameColours(s, t) => SameColours(s1, t1)
    BY SetKeeps
  <1> HIDE DEF s1, t1
  <1>2. /\ IsScreen(s2) /\ IsScreen(t2)
        /\ Opaque(s1) => Opaque(s2)
        /\ SameColours(s1, t1) => SameColours(s2, t2)
    BY <1>1, SetKeeps
  <1> HIDE DEF s2, t2
  <1>3. /\ IsScreen(s3) /\ IsScreen(t3)
        /\ Opaque(s2) => Opaque(s3)
        /\ SameColours(s2, t2) => SameColours(s3, t3)
    BY <1>2, ButtonsKeep
  <1> HIDE DEF s3, t3
  <1> QED BY <1>0, <1>1, <1>2, <1>3, SetKeeps

\* All that one iteration draws keeps what is opaque and what looks the same:
\* which pixels are drawn, and in which colour, depends on no pixel.
LEMMA DrawnKeeps ==
  ASSUME NEW s, NEW t, NEW pos, NEW down, NEW fired, IsScreen(s), IsScreen(t)
  PROVE  /\ IsScreen(Drawn(s, pos, down, fired))
         /\ Opaque(s) => Opaque(Drawn(s, pos, down, fired))
         /\ SameColours(s, t)
              => SameColours(Drawn(s, pos, down, fired), Drawn(t, pos, down, fired))
  <1> DEFINE act == Touched(pos, down)
             D == (act \ active) \cup (active \ act)
             how == IF fired \subseteq {Quit} THEN low ELSE CHOOSE b \in fired : TRUE
             L == Line(at, pos) \cap Pixels
             s0 == DrawButtons(s, D, act)
             t0 == DrawButtons(t, D, act)
             s1 == AfterButtons(s, act, fired)
             t1 == AfterButtons(t, act, fired)
  <1>0. \A x : Drawn(x, pos, down, fired) =
          IF down THEN IF how = Draw /\ top THEN Set(AfterButtons(x, act, fired), L, 2)
                       ELSE AfterButtons(x, act, fired)
          ELSE IF how = Bmp THEN Square(AfterButtons(x, act, fired), pos, act)
          ELSE AfterButtons(x, act, fired)
    BY DEF Drawn
  <1>1. /\ s1 = IF fired \subseteq {Quit} THEN s0 ELSE RefreshScreen(s0, act)
        /\ t1 = IF fired \subseteq {Quit} THEN t0 ELSE RefreshScreen(t0, act)
    BY DEF AfterButtons
  <1> HIDE DEF act, D, how, L
  <1>2. /\ IsScreen(s0) /\ IsScreen(t0)
        /\ Opaque(s) => Opaque(s0)
        /\ SameColours(s, t) => SameColours(s0, t0)
    BY ButtonsKeep
  <1> HIDE DEF s0, t0
  <1>3. /\ IsScreen(s1) /\ IsScreen(t1)
        /\ Opaque(s) => Opaque(s1)
        /\ SameColours(s, t) => SameColours(s1, t1)
    <2>1. CASE fired \subseteq {Quit} BY <2>1, <1>1, <1>2
    <2>2. CASE ~(fired \subseteq {Quit})
      <3>1. s1 = RefreshScreen(s0, act) /\ t1 = RefreshScreen(t0, act)
        BY <2>2, <1>1
      <3> HIDE DEF s1, t1
      <3> QED BY <3>1, <1>2, RefreshKeeps
    <2> QED BY <2>1, <2>2
  <1> DEFINE u == Drawn(s, pos, down, fired)
             v == Drawn(t, pos, down, fired)
  <1>4. \/ u = s1 /\ v = t1
        \/ u = Set(s1, L, 2) /\ v = Set(t1, L, 2)
        \/ u = Square(s1, pos, act) /\ v = Square(t1, pos, act)
    BY <1>0
  <1> HIDE DEF u, v, s1, t1
  <1>5. /\ IsScreen(u)
        /\ Opaque(s1) => Opaque(u)
        /\ SameColours(s1, t1) => SameColours(u, v)
    BY <1>3, <1>4, SetKeeps, SquareKeeps
  <1> QED BY <1>3, <1>5 DEF u, v

-----------------------------------------------------------------------------
\* The inductive invariant of the crosshair: also below the visible screen the
\* colours are those without it, and all that is visible has been drawn upon.
CrossInv ==
  /\ IsScreen(screen) /\ IsScreen(back)
  /\ Opaque(screen) /\ Opaque(back)
  /\ SameColours(screen, IF pc = "reading" THEN Crossed(back, low) ELSE back)

LEMMA CrossInvInit == Init => CrossInv
  <1> SUFFICES ASSUME Init PROVE CrossInv OBVIOUS
  <1>1. IsScreen(Blank) BY DEF Blank, IsScreen
  <1>2. screen = RefreshScreen(Blank, {}) /\ back = RefreshScreen(Blank, {}) /\ pc = "top"
    BY DEF Init
  <1>3. IsScreen(RefreshScreen(Blank, {})) /\ Opaque(RefreshScreen(Blank, {}))
    <2> DEFINE e == {}
    <2> HIDE DEF e
    <2>1. IsScreen(RefreshScreen(Blank, e)) /\ Opaque(RefreshScreen(Blank, e))
      BY <1>1, RefreshKeeps
    <2> QED BY <2>1 DEF e
  <1> QED BY <1>2, <1>3 DEF CrossInv, SameColours

\* Hidden again, the crosshair has left nothing.
LEMMA HideRestores ==
  ASSUME CrossInv, pc = "reading", NEW pos
  PROVE  /\ IsScreen(Hide(pos)) /\ Opaque(Hide(pos)) /\ SameColours(Hide(pos), back)
  <1> DEFINE s == Crossed(back, low)
  <1>1. IsScreen(s) /\ SameColours(Crossed(s, low), back)
    BY CrossKeeps DEF CrossInv
  <1>2. SameColours(screen, s) BY DEF CrossInv
  <1> HIDE DEF s
  <1>3. /\ IsScreen(Crossed(screen, low)) /\ Opaque(Crossed(screen, low))
        /\ SameColours(Crossed(screen, low), Crossed(s, low))
    BY <1>1, <1>2, CrossKeeps DEF CrossInv
  <1> QED BY <1>1, <1>3 DEF Hide, SameColours

LEMMA CrossInvStep == CrossInv /\ [Next]_vars => CrossInv'
  <1> SUFFICES ASSUME CrossInv, [Next]_vars PROVE CrossInv' OBVIOUS
  <1>1. CASE Show
    <2>1. /\ IsScreen(Crossed(screen, low)) /\ Opaque(Crossed(screen, low))
          /\ SameColours(Crossed(screen, low), Crossed(back, low))
      BY <1>1, CrossKeeps DEF CrossInv, Show
    <2>2. /\ screen' = Crossed(screen, low) /\ pc' = "reading"
          /\ back' = back /\ low' = low /\ at' = at
      BY <1>1 DEF Show
    <2>3. Crossed(back, low)' = Crossed(back, low)
      BY <2>2 DEF Crossed, PutCross
    <2>4. IsScreen(screen)' /\ IsScreen(back)' /\ Opaque(screen)' /\ Opaque(back)'
      BY <2>1, <2>2 DEF CrossInv, IsScreen, Opaque
    <2>5. SameColours(screen, Crossed(back, low))'
      BY <2>1, <2>2, <2>3 DEF SameColours
    <2> QED BY <2>2, <2>4, <2>5 DEF CrossInv
  <1>2. CASE NoSample \/ Fail
    <2>1. pc = "reading" /\ screen' = Hide(at) /\ pc' # "reading" /\ back' = back
      BY <1>2 DEF NoSample, Fail
    <2>2. IsScreen(Hide(at)) /\ Opaque(Hide(at)) /\ SameColours(Hide(at), back)
      BY <2>1, HideRestores
    <2> QED BY <2>1, <2>2 DEF CrossInv, IsScreen, Opaque, SameColours
  <1>3. ASSUME NEW pos \in Points, NEW down \in BOOLEAN, Sample(pos, down)
        PROVE  CrossInv'
    <2> DEFINE fired == IF down THEN {} ELSE active
    <2>1. /\ pc = "reading" /\ pc' # "reading"
          /\ screen' = Drawn(Hide(pos), pos, down, fired)
          /\ back' = Drawn(back, pos, down, fired)
      BY <1>3 DEF Sample
    <2> HIDE DEF fired
    <2>2. IsScreen(Hide(pos)) /\ Opaque(Hide(pos)) /\ SameColours(Hide(pos), back)
      BY <2>1, HideRestores
    <2> DEFINE h == Hide(pos)
    <2> HIDE DEF h
    <2>3. IsScreen(h) /\ Opaque(h) /\ SameColours(h, back) BY <2>2 DEF h
    <2>4. IsScreen(back) /\ Opaque(back) BY DEF CrossInv
    <2> DEFINE u == Drawn(h, pos, down, fired)
               v == Drawn(back, pos, down, fired)
    <2>5. IsScreen(u) /\ Opaque(u) /\ SameColours(u, v) BY <2>3, <2>4, DrawnKeeps
    <2>6. IsScreen(v) /\ Opaque(v) BY <2>4, DrawnKeeps
    <2>7. screen' = u /\ back' = v BY <2>1 DEF h
    <2> HIDE DEF u, v
    <2> QED BY <2>1, <2>5, <2>6, <2>7 DEF CrossInv, IsScreen, Opaque, SameColours
  <1>4. CASE UNCHANGED vars
    BY <1>4 DEF vars, CrossInv, IsScreen, Opaque, SameColours, Crossed, PutCross
  <1> QED BY <1>1, <1>2, <1>3, <1>4 DEF Next

\* A visible pixel is its colour and opaque, on both screens.
LEMMA CrossInvImplies == CrossInv => CrossLeavesNothing
  <1> SUFFICES ASSUME CrossInv, NEW p \in Visible
               PROVE  screen[p] = (IF pc = "reading" THEN Crossed(back, low) ELSE back)[p]
    BY DEF CrossLeavesNothing
  <1> DEFINE s == IF pc = "reading" THEN Crossed(back, low) ELSE back
  <1>1. IsScreen(s) /\ Opaque(s)
    BY CrossKeeps DEF CrossInv
  <1>2. SameColours(screen, s) BY DEF CrossInv
  <1> HIDE DEF s
  <1>3. p \in Pixels BY VisibleInPixels
  <1>4. screen[p] = s[p]
    BY <1>1, <1>2, <1>3 DEF CrossInv, IsScreen, Opaque, SameColours
  <1> QED BY <1>4 DEF s

(* Nothing of a crosshair stays behind, on a screen of any size.           *)
THEOREM CrosshairLeavesNothing == Spec => []CrossLeavesNothing
  <1> QED BY CrossInvInit, CrossInvStep, CrossInvImplies, PTL DEF Spec

-----------------------------------------------------------------------------
\* The pixels that no button takes, and what is to be on them.
Free == Visible \ {ButtonAt[b] : b \in Buttons}

At(pos) == Rectangle(pos, <<pos[1] + Side, pos[2] + Side>>)

Wanted(p, pos) == IF p \in At(pos) THEN colormap[1]
                  ELSE IF p \in Text THEN colormap[2] ELSE colormap[0]

\* One button at most is touched at a time, so one at most is released.
SquareInv ==
  /\ low \in Buttons
  /\ active \subseteq Buttons /\ \A b, c \in active : b = c
  /\ OneSquare

LEMMA ButtonsLeaveFree ==
  ASSUME NEW s, NEW B \in SUBSET Buttons, NEW act, NEW p \in Free
  PROVE  DrawButtons(s, B, act)[p] = s[p]
  <1>1. p \in Pixels BY VisibleInPixels DEF Free
  <1>2. p \notin {ButtonAt[b] : b \in B \ act} /\ p \notin {ButtonAt[b] : b \in B \cap act}
    BY DEF Free
  <1> QED BY <1>1, <1>2 DEF DrawButtons, Set

LEMMA RefreshClears ==
  ASSUME NEW s, NEW act, NEW p \in Free
  PROVE  RefreshScreen(s, act)[p].rgb = IF p \in Text THEN colormap[2] ELSE colormap[0]
  <1> DEFINE u == Set(Set(s, Visible, 0), Text, 2)
  <1>1. p \in Pixels /\ p \in Visible BY VisibleInPixels DEF Free
  <1>2. u[p].rgb = IF p \in Text THEN colormap[2] ELSE colormap[0]
    BY <1>1 DEF Set
  <1>3. RefreshScreen(s, act) = DrawButtons(u, Buttons, act) BY DEF RefreshScreen
  <1> HIDE DEF u
  <1>4. DrawButtons(u, Buttons, act)[p] = u[p] BY ButtonsLeaveFree
  <1> QED BY <1>2, <1>3, <1>4

\* Moved from a place where it was to pos, the square is at pos and nowhere
\* else; the same if it was not there and the screen has just been refreshed.
LEMMA SquareMoves ==
  ASSUME NEW s, NEW pos, NEW act, NEW p \in Free,
         \/ s[p].rgb = Wanted(p, old)
         \/ s[p].rgb = IF p \in Text THEN colormap[2] ELSE colormap[0]
  PROVE  Square(s, pos, act)[p].rgb = Wanted(p, pos)
  <1> DEFINE u == Set(Set(s, At(old), 0), Text, 2)
             v == DrawButtons(u, Buttons, act)
  <1>1. p \in Pixels BY VisibleInPixels DEF Free
  <1>2. u[p].rgb = IF p \in Text THEN colormap[2] ELSE colormap[0]
    BY <1>1 DEF Set, Wanted
  <1>3. Square(s, pos, act) = Set(v, At(pos), 1) BY DEF Square, At
  <1>4. v[p] = u[p] BY ButtonsLeaveFree
  <1> HIDE DEF u, v
  <1>5. Set(v, At(pos), 1)[p].rgb = IF p \in At(pos) THEN colormap[1] ELSE v[p].rgb
    BY <1>1 DEF Set
  <1> QED BY <1>2, <1>3, <1>4, <1>5 DEF Wanted

LEMMA SquareInvInit == Init => SquareInv
  BY DEF Init, SquareInv, OneSquare, Buttons, Drag, Bmp

LEMMA SquareInvStep == SquareInv /\ [Next]_vars => SquareInv'
  <1> SUFFICES ASSUME SquareInv, [Next]_vars PROVE SquareInv' OBVIOUS
  <1>1. CASE Show \/ NoSample \/ Fail \/ UNCHANGED vars
    BY <1>1 DEF Show, NoSample, Fail, vars, SquareInv, OneSquare, Rectangle, Clip
  <1>2. ASSUME NEW pos \in Points, NEW down \in BOOLEAN, Sample(pos, down)
        PROVE  SquareInv'
    <2> DEFINE fired == IF down THEN {} ELSE active
               act == Touched(pos, down)
               D == (act \ active) \cup (active \ act)
               s0 == DrawButtons(back, D, act)
               s1 == AfterButtons(back, act, fired)
    <2>1. /\ back' = Drawn(back, pos, down, fired)
          /\ active' = act
          /\ \/ fired \subseteq {Quit} /\ low' = low
             \/ fired # {Quit} /\ low' \in fired
          /\ old' = IF ~down /\ low' = Bmp THEN pos ELSE old
      BY <1>2 DEF Sample
    <2>2. act \subseteq Buttons /\ \A b, c \in act : b = c
      BY TouchTestAssumption DEF Touched
    <2>3. fired \subseteq Buttons /\ (\A b, c \in fired : b = c) /\ low' \in Buttons
      BY <2>1 DEF SquareInv
    <2>4. ASSUME low' = Bmp, NEW p \in Free
          PROVE  back'[p].rgb = Wanted(p, old)'
      <3>1. (IF fired \subseteq {Quit} THEN low ELSE CHOOSE b \in fired : TRUE) = Bmp
        <4>1. CASE fired \subseteq {Quit}
          <5>1. Bmp # Quit BY DEF Bmp, Quit
          <5>2. low' = low BY <4>1, <5>1, <2>1, <2>4
          <5> QED BY <4>1, <5>2, <2>4
        <4>2. CASE ~(fired \subseteq {Quit})
          <5>1. low' \in fired BY <4>2, <2>1
          <5> QED BY <4>2, <5>1, <2>3, <2>4
        <4> QED BY <4>1, <4>2
      <3>2. back' = IF down THEN s1 ELSE Square(s1, pos, act)
        BY <2>1, <3>1 DEF Drawn, Bmp, Draw
      <3>3. \/ s1[p].rgb = Wanted(p, old)
            \/ ~down /\ s1[p].rgb = IF p \in Text THEN colormap[2] ELSE colormap[0]
        <4>1. CASE fired \subseteq {Quit}
          <5>1. low = Bmp BY <4>1, <3>1
          <5>2. back[p].rgb = Wanted(p, old)
            BY <5>1 DEF SquareInv, OneSquare, Wanted, Free, At
          <5>3. s1 = s0 BY <4>1 DEF AfterButtons
          <5>4. D \in SUBSET Buttons BY <2>2 DEF SquareInv
          <5> HIDE DEF s1, D, act, fired
          <5>5. s0[p] = back[p] BY <5>4, ButtonsLeaveFree
          <5> QED BY <5>2, <5>3, <5>5
        <4>2. CASE ~(fired \subseteq {Quit})
          <5>1. s1 = RefreshScreen(s0, act) BY <4>2 DEF AfterButtons
          <5>2. ~down BY <4>2
          <5> HIDE DEF s1, s0
          <5>3. RefreshScreen(s0, act)[p].rgb = IF p \in Text THEN colormap[2] ELSE colormap[0]
            BY RefreshClears
          <5> QED BY <5>1, <5>2, <5>3
        <4> QED BY <4>1, <4>2
      <3>4. Wanted(p, old)' = Wanted(p, IF down THEN old ELSE pos)
        BY <2>1, <2>4 DEF Wanted, At, Rectangle, Clip
      <3> HIDE DEF s1, act, fired
      <3>5. CASE down BY <3>2, <3>3, <3>4, <3>5
      <3>6. CASE ~down
        <4>1. Square(s1, pos, act)[p].rgb = Wanted(p, pos) BY <3>3, SquareMoves
        <4> QED BY <3>2, <3>4, <3>6, <4>1
      <3> QED BY <3>5, <3>6
    <2>5. OneSquare' BY <2>4 DEF OneSquare, Wanted, Free, At
    <2> QED BY <2>1, <2>2, <2>3, <2>5 DEF SquareInv
  <1> QED BY <1>1, <1>2 DEF Next

(* In bmp mode there is one square, where the pen last left the screen.    *)
THEOREM SquareIsOne == Spec => []OneSquare
  <1>1. SquareInv => OneSquare BY DEF SquareInv
  <1> QED BY <1>1, SquareInvInit, SquareInvStep, PTL DEF Spec

-----------------------------------------------------------------------------
(* The console is given back.  While it is in graphics mode, or another    *)
(* terminal is shown, the program still knows what it takes to undo that,  *)
(* so close_framebuffer, which every signal starts from its first step,    *)
(* does undo it; and it is only past that step that it forgets.            *)

\* the steps of open_framebuffer before the terminal is shown, and before it
\* is in graphics mode
BeforeShown == {"getenv", "query", "open_tty", "getstate", "activate"}
BeforeGraphics == BeforeShown \cup {"waitactive", "graphics"}
Opening == BeforeGraphics \cup {"open_fb", "fix", "var", "mmap", "table", "running"}

\* close_framebuffer up to where the mode is set back, and to where the first
\* terminal is
BeforeText == {"munmap", "close_fb", "text"}
BeforeBack == BeforeText \cup {"back"}

\* no handler runs before the first signal, and every one starts close_framebuffer
NoHandlerYet == conpc \in Opening => handling = {}

\* what has been done so far of the opening
Progress ==
  /\ conpc \in BeforeGraphics => mode = "text"
  /\ conpc \in BeforeShown => shown_vt = "first"
  /\ conpc \in BeforeGraphics \ {"getenv"} => consoledevice = "tty"
  /\ conpc \in {"getstate", "activate", "waitactive", "graphics"} => con_fd = "open"
  /\ conpc \in {"activate", "waitactive", "graphics"} /\ refused = {} => last_vt = "first"

\* while there is something to undo, it is still going to be undone
ModeKnown ==
  mode # "text" /\ "KD_TEXT" \notin refused =>
    /\ consoledevice = "tty" /\ con_fd = "open"
    /\ conpc \in (Opening \ BeforeGraphics) \cup BeforeText \cup {"unmapped"}

TerminalKnown ==
  shown_vt # "first" /\ refused = {} =>
    /\ consoledevice = "tty" /\ con_fd = "open" /\ last_vt = "first"
    /\ conpc \in (Opening \ BeforeShown) \cup BeforeBack \cup {"unmapped"}

(* The inductive invariant.                                                *)
ConInv == NoHandlerYet /\ Progress /\ ModeKnown /\ TerminalKnown

USE DEF BeforeShown, BeforeGraphics, Opening, BeforeText, BeforeBack

LEMMA ConInvInit == ConInit => ConInv
BY DEF ConInit, ConInv, NoHandlerYet, Progress, ModeKnown, TerminalKnown

(* Taking the console over: what was done can be undone from now on.       *)
LEMMA TakingKeeps ==
  ConInv /\ (Getenv \/ OpenQuery \/ OpenTty \/ GetState \/ Activate \/ WaitActive \/ Graphics) => ConInv'
<1> SUFFICES ASSUME ConInv, Getenv \/ OpenQuery \/ OpenTty \/ GetState \/ Activate \/ WaitActive \/ Graphics
             PROVE  ConInv'
  OBVIOUS
<1>. USE DEF ConInv, NoHandlerYet, Progress, ModeKnown, TerminalKnown, Close, Fault, Refuses
<1>1. CASE Getenv
  BY <1>1 DEF Getenv
<1>2. CASE OpenQuery
  BY <1>2 DEF OpenQuery
<1>3. CASE OpenTty
  BY <1>3 DEF OpenTty
<1>4. CASE GetState
  BY <1>4 DEF GetState
<1>5. CASE Activate
  BY <1>5 DEF Activate
<1>6. CASE WaitActive
  BY <1>6 DEF WaitActive
<1>7. CASE Graphics
  BY <1>7 DEF Graphics
<1>. QED  BY <1>1, <1>2, <1>3, <1>4, <1>5, <1>6, <1>7

(* The screen and its table: the console stays known, though not all of    *)
(* these steps may have been done when close_framebuffer comes.            *)
LEMMA OpeningKeeps ==
  ConInv /\ (OpenFb \/ FixInfo \/ VarInfo \/ MapBuffer \/ Table \/ Leave) => ConInv'
<1> SUFFICES ASSUME ConInv, OpenFb \/ FixInfo \/ VarInfo \/ MapBuffer \/ Table \/ Leave
             PROVE  ConInv'
  OBVIOUS
<1>. USE DEF ConInv, NoHandlerYet, Progress, ModeKnown, TerminalKnown, Close, Fault, Refuses
<1>1. CASE OpenFb
  BY <1>1 DEF OpenFb
<1>2. CASE FixInfo
  BY <1>2 DEF FixInfo
<1>3. CASE VarInfo
  BY <1>3 DEF VarInfo
<1>4. CASE MapBuffer
  BY <1>4 DEF MapBuffer
<1>5. CASE Table
  BY <1>5 DEF Table
<1>6. CASE Leave
  BY <1>6 DEF Leave
<1>. QED  BY <1>1, <1>2, <1>3, <1>4, <1>5, <1>6

(* Giving back: the terminal is closed only behind the steps that need it. *)
LEMMA ClosingKeeps ==
  ConInv /\ (Munmap \/ CloseFb \/ TextMode \/ BackToFirst \/ CloseTty \/ FreeTable \/ Exit) => ConInv'
<1> SUFFICES ASSUME ConInv, Munmap \/ CloseFb \/ TextMode \/ BackToFirst \/ CloseTty \/ FreeTable \/ Exit
             PROVE  ConInv'
  OBVIOUS
<1>. USE DEF ConInv, NoHandlerYet, Progress, ModeKnown, TerminalKnown, Close, Fault, Refuses
<1>1. CASE Munmap
  BY <1>1 DEF Munmap
<1>2. CASE CloseFb
  BY <1>2 DEF CloseFb
<1>3. CASE TextMode
  BY <1>3 DEF TextMode
<1>4. CASE BackToFirst
  BY <1>4 DEF BackToFirst
<1>5. CASE CloseTty
  BY <1>5 DEF CloseTty
<1>6. CASE FreeTable
  BY <1>6 DEF FreeTable
<1>7. CASE Exit
  BY <1>7 DEF Exit
<1>. QED  BY <1>1, <1>2, <1>3, <1>4, <1>5, <1>6, <1>7

(* A signal: back to the first step, from which everything is undone.      *)
LEMMA SignalKeeps ==
  ASSUME ConInv, NEW s, Signal(s)
  PROVE  ConInv'
<1>1. NoHandlerYet'
  BY DEF NoHandlerYet, Signal, Close
<1>2. Progress'
  BY DEF Signal, Close, Progress
<1>3. ModeKnown' /\ TerminalKnown'
  <2>1. conpc' \in BeforeText
    BY DEF Signal, Close
  <2>. QED  BY <2>1 DEF ConInv, ModeKnown, TerminalKnown, Signal
<1>. QED  BY <1>1, <1>2, <1>3 DEF ConInv

(* Every step of the console keeps what is known of it.                     *)
LEMMA ConInvStep == ConInv /\ [ConNext]_convars => ConInv'
<1> SUFFICES ASSUME ConInv, [ConNext]_convars PROVE ConInv'
  OBVIOUS
<1>1. CASE UNCHANGED convars
  BY <1>1 DEF convars, ConInv, NoHandlerYet, Progress, ModeKnown, TerminalKnown
<1>2. CASE ConNext
  BY <1>2, TakingKeeps, OpeningKeeps, ClosingKeeps, SignalKeeps DEF ConNext
<1>. QED  BY <1>1, <1>2

(* What is known at the end                                                *)
LEMMA ConInvComesBack == ConInv => ConsoleComesBack
BY DEF ConInv, ModeKnown, TerminalKnown, ConsoleComesBack, Gone

(***************************************************************************)
(* However open_framebuffer fails and whenever signals arrive, the console *)
(* ends in text mode on the terminal it came from, unless the console      *)
(* itself refused or close_framebuffer took the program's memory away.     *)
(***************************************************************************)
THEOREM ConsoleIsGivenBack == ConSpec => []ConsoleComesBack
<1>. QED  BY ConInvInit, ConInvStep, ConInvComesBack, PTL DEF ConSpec

-----------------------------------------------------------------------------
\* The cells of a screen by row and column
Screens == {0, 1}
CellAt(s, row, col) == (row + s * Rows) * Columns + col

\* Rows of cells do not overlap, and the two screens have different ones.
LEMMA CellsDiffer ==
  ASSUME NEW s \in Screens, NEW row \in 0 .. Rows - 1, NEW col \in 0 .. Columns - 1,
         NEW t \in Screens, NEW line \in 0 .. Rows - 1, NEW place \in 0 .. Columns - 1
  PROVE  /\ CellAt(s, row, col) \in Cells
         /\ CellAt(s, row, col) = CellAt(t, line, place) => s = t /\ row = line /\ col = place
<1> DEFINE y == row + s * Rows
           z == line + t * Rows
<1>0. Rows \in Nat /\ Columns \in Nat /\ Rows > 0 /\ Columns > 0
  BY FrambufferAssumption
<1>1. y \in Nat /\ z \in Nat /\ y <= 2 * Rows - 1 /\ z <= 2 * Rows - 1
  BY <1>0 DEF Screens
<1>2. y = z => s = t /\ row = line
  BY <1>0 DEF Screens
<1>3. ASSUME NEW a \in Nat, NEW b \in Nat, NEW c \in 0 .. Columns - 1, NEW d \in 0 .. Columns - 1,
             a < b
      PROVE  a * Columns + c < b * Columns + d
  <2>1. PICK e \in Nat : b = a + 1 + e
    <3>1. b - a - 1 \in Nat /\ b = a + 1 + (b - a - 1)
      BY <1>3
    <3>. QED  BY <3>1
  <2>2. b * Columns = a * Columns + Columns + e * Columns /\ e * Columns >= 0
    BY <1>0, <2>1
  <2>3. a * Columns \in Nat /\ b * Columns \in Nat /\ e * Columns \in Nat
    BY <1>0, <2>1
  <2>. QED  BY <2>2, <2>3, <1>0
<1>4. CellAt(s, row, col) = y * Columns + col /\ CellAt(t, line, place) = z * Columns + place
  BY DEF CellAt
<1>5. CellAt(s, row, col) = CellAt(t, line, place) => y = z /\ col = place
  <2>1. CASE y < z
    BY <2>1, <1>1, <1>3, <1>4, <1>0
  <2>2. CASE z < y
    BY <2>2, <1>1, <1>3, <1>4, <1>0
  <2>3. CASE y = z
    <3>1. y * Columns \in Nat
      BY <1>0, <1>1
    <3>. HIDE DEF y, z
    <3>. QED  BY <2>3, <3>1, <1>4, <1>0
  <2>. HIDE DEF y, z
  <2>. QED  BY <2>1, <2>2, <2>3, <1>1
<1>6. CellAt(s, row, col) \in Cells
  <2>1. y * Columns + col < (2 * Rows) * Columns + 0
    BY <1>1, <1>3, <1>0
  <2>2. (2 * Rows) * Columns = 2 * (Columns * Rows) /\ Columns * Rows \in Nat /\ y * Columns \in Nat
    BY <1>0, <1>1
  <2>. HIDE DEF y
  <2>. QED  BY <2>1, <2>2, <1>0, <1>4 DEF Cells, screensize, screen0size
<1>. HIDE DEF y, z
<1>. QED  BY <1>2, <1>5, <1>6

-----------------------------------------------------------------------------
\* Both screens, or part of one, as the points that are to be seen there

\* no place has two colours
Picture(w) == \A p \in w, q \in w : p[1] = q[1] => p = q
Shows(w) == \A p \in w : memory[0][p[1]] = p[2]
Coming(points, w) ==
  /\ points \in Seq(w)
  /\ \A p \in w : memory[0][p[1]] = p[2] \/ \E j \in 1 .. Len(points) : points[j] = p
Avoids(points, w) == \A j \in 1 .. Len(points), p \in w : points[j][1] # p[1]

PointDrawn(p) == memory' = [memory EXCEPT ![0][p[1]] = p[2]]
IsMemory == \E v : memory \in [0 .. 2 -> [Cells -> v]]

\* A point drawn is seen in its cell, and no other cell changes.
LEMMA PointIs ==
  ASSUME IsMemory, NEW p, p[1] \in Cells, PointDrawn(p)
  PROVE  IsMemory' /\ memory'[0][p[1]] = p[2]
         /\ \A a \in Cells : a # p[1] => memory'[0][a] = memory[0][a]
<1>1. PICK v : memory \in [0 .. 2 -> [Cells -> v]]
  BY DEF IsMemory
<1>2. memory' \in [0 .. 2 -> [Cells -> v \cup {p[2]}]]
  BY <1>1 DEF PointDrawn
<1>3. memory'[0] = [memory[0] EXCEPT ![p[1]] = p[2]]
  BY <1>1 DEF PointDrawn
<1>4. memory[0] \in [Cells -> v]
  BY <1>1
<1>. QED  BY <1>2, <1>3, <1>4 DEF IsMemory

\* Drawing the first of the points brings the picture nearer,
LEMMA PointComes ==
  ASSUME IsMemory, NEW w, Picture(w), \A p \in w : p[1] \in Cells,
         NEW points, Coming(points, w), points # <<>>, PointDrawn(Head(points))
  PROVE  Coming(Tail(points), w)'
<1> DEFINE h == Head(points)
<1>1. /\ points \in Seq(w) /\ h \in w /\ Tail(points) \in Seq(w) /\ h = points[1]
      /\ Len(points) \in Nat /\ Len(Tail(points)) = Len(points) - 1
      /\ \A j \in 1 .. Len(points) - 1 : Tail(points)[j] = points[j + 1]
  BY DEF Coming
<1>2. /\ memory'[0][h[1]] = h[2]
      /\ \A a \in Cells : a # h[1] => memory'[0][a] = memory[0][a]
  BY <1>1, PointIs
<1>3. ASSUME NEW p \in w
      PROVE  memory'[0][p[1]] = p[2] \/ \E j \in 1 .. Len(Tail(points)) : Tail(points)[j] = p
  <2>1. CASE p[1] = h[1]
    <3>1. p = h
      BY <2>1, <1>1 DEF Picture
    <3>. QED  BY <3>1, <1>2
  <2>2. CASE p[1] # h[1]
    <3>1. memory'[0][p[1]] = memory[0][p[1]]
      BY <2>2, <1>2
    <3>2. CASE memory[0][p[1]] = p[2]
      BY <3>1, <3>2
    <3>3. CASE memory[0][p[1]] # p[2]
      <4>1. PICK j \in 1 .. Len(points) : points[j] = p
        BY <3>3 DEF Coming
      <4>2. j # 1
        BY <4>1, <1>1, <2>2
      <4>3. j - 1 \in 1 .. Len(Tail(points)) /\ Tail(points)[j - 1] = p
        <5>1. j - 1 \in 1 .. Len(points) - 1 /\ (j - 1) + 1 = j
          BY <4>1, <4>2, <1>1
        <5>. QED  BY <5>1, <1>1, <4>1
      <4>. QED  BY <4>3
    <3>. QED  BY <3>2, <3>3
  <2>. QED  BY <2>1, <2>2
<1>. QED  BY <1>1, <1>3 DEF Coming

\* and leaves a picture alone that has no cell among them.
LEMMA PointLeaves ==
  ASSUME IsMemory, NEW w, \A p \in w : p[1] \in Cells, NEW v, NEW points \in Seq(v),
         points # <<>>, Avoids(points, w), Shows(w), PointDrawn(Head(points)), Head(points)[1] \in Cells
  PROVE  Shows(w)' /\ Avoids(Tail(points), w)
<1>1. /\ Head(points) = points[1] /\ Len(points) \in Nat \ {0} /\ Len(Tail(points)) = Len(points) - 1
      /\ \A j \in 1 .. Len(points) - 1 : Tail(points)[j] = points[j + 1]
  OBVIOUS
<1>2. Shows(w)'
  <2>1. SUFFICES ASSUME NEW p \in w PROVE memory'[0][p[1]] = p[2]
    BY DEF Shows
  <2>2. p[1] # Head(points)[1]
    BY <1>1 DEF Avoids
  <2>. QED  BY <2>2, PointIs DEF Shows
<1>3. Avoids(Tail(points), w)
  BY <1>1 DEF Avoids
<1>. QED  BY <1>2, <1>3

-----------------------------------------------------------------------------
\* The calls: one first, and those behind it

Then(x, r) == <<x>> \o r
\* calls of which nothing is claimed, however they go on
Loose(x) == /\ "op" \in DOMAIN x /\ x.op \notin {"flash_block", "flash_BMP", "turn"}
            /\ x.op = "frame" => "left" \in DOMAIN x /\ x.left # 1
Harmless(r) == \E v : r \in Seq(v) /\ \A x \in v : Loose(x)
IsList(r) == \E v : r \in Seq(v)

\* The list with a call before the others
LEMMA ThenIs ==
  ASSUME NEW x, NEW r, IsList(r)
  PROVE  /\ IsList(Then(x, r)) /\ Then(x, r) # <<>>
         /\ Head(Then(x, r)) = x /\ Tail(Then(x, r)) = r
         /\ Len(Then(x, r)) = Len(r) + 1 /\ Len(r) \in Nat
         /\ DOMAIN Then(x, r) = 1 .. Len(r) + 1
         /\ Then(x, r)[1] = x /\ \A k \in 1 .. Len(r) : Then(x, r)[k + 1] = r[k]
<1>1. PICK v : r \in Seq(v)
  BY DEF IsList
<1>2. r \in Seq(v \cup {x}) /\ <<x>> \in Seq(v \cup {x})
  BY <1>1
<1>3. Then(x, r) \in Seq(v \cup {x})
  BY <1>2 DEF Then
<1>. QED  BY <1>2, <1>3 DEF Then, IsList

\* Sequences may be put together from either end.
LEMMA ConcatTurns ==
  ASSUME NEW w, NEW p \in Seq(w), NEW q \in Seq(w), NEW s \in Seq(w)
  PROVE  (p \o q) \o s = p \o (q \o s) /\ p \o q \in Seq(w)
BY ONLY p \in Seq(w), q \in Seq(w), s \in Seq(w), SMT

\* The two elements of two sequences of one
LEMMA ConcatOnes ==
  ASSUME NEW w, NEW p \in Seq(w), NEW q \in Seq(w), Len(p) = 1, Len(q) = 1
  PROVE  p \o q \in Seq(w) /\ Len(p \o q) = 2 /\ (p \o q)[1] = p[1] /\ (p \o q)[2] = q[1]
<1>1. 2 \in 1 .. Len(p) + Len(q) /\ 1 \in 1 .. Len(p) + Len(q)
  OBVIOUS
<1>2. (p \o q)[2] = IF 2 <= Len(p) THEN p[2] ELSE q[2 - Len(p)]
  BY <1>1, ConcatProperties, Zenon
<1>3. (p \o q)[1] = IF 1 <= Len(p) THEN p[1] ELSE q[1 - Len(p)]
  BY <1>1, ConcatProperties, Zenon
<1>4. p \o q \in Seq(w) /\ Len(p \o q) = Len(p) + Len(q)
  BY ConcatProperties, Zenon
<1>5. ~(2 <= Len(p)) /\ 2 - Len(p) = 1 /\ 1 <= Len(p) /\ Len(p) + Len(q) = 2
  OBVIOUS
<1>. QED  BY <1>2, <1>3, <1>4, <1>5, Zenon

\* A sequence of two is known by its elements.
LEMMA ListOfTwo ==
  ASSUME NEW w, NEW s \in Seq(w), Len(s) = 2, NEW a, NEW b, s[1] = a, s[2] = b
  PROVE  s = <<a, b>>
OBVIOUS

\* Two calls are one before the other.
LEMMA TwoOnes ==
  ASSUME NEW w, NEW a \in w, NEW b \in w
  PROVE  <<a, b>> = <<a>> \o <<b>>
<1> DEFINE p == <<a>>
           q == <<b>>
<1>1. p \in Seq(w) /\ q \in Seq(w) /\ Len(p) = 1 /\ Len(q) = 1 /\ p[1] = a /\ q[1] = b
  OBVIOUS
<1>. HIDE DEF p, q
<1>2. p \o q \in Seq(w) /\ Len(p \o q) = 2 /\ (p \o q)[1] = p[1] /\ (p \o q)[2] = q[1]
  BY <1>1, ConcatOnes
<1>3. PICK s : s = p \o q
  OBVIOUS
<1>4. s \in Seq(w) /\ Len(s) = 2 /\ s[1] = a /\ s[2] = b
  BY <1>1, <1>2, <1>3
<1>5. s = <<a, b>>
  BY <1>4, ListOfTwo
<1>. QED  BY <1>3, <1>5, Zenon DEF p, q

\* What an action puts before the rest of the list: nothing, or one call,
LEMMA OneByOne ==
  ASSUME NEW r, IsList(r)
  PROVE  /\ <<>> \o r = r
         /\ \A a : <<a>> \o r = Then(a, r)
<1>1. PICK v : r \in Seq(v)
  BY DEF IsList
<1>2. <<>> \o r = r
  BY <1>1
<1>. QED  BY <1>2 DEF Then

\* two calls,
LEMMA TwoByOne ==
  ASSUME NEW r, IsList(r), NEW a, NEW b
  PROVE  <<a, b>> \o r = Then(a, Then(b, r))
<1>1. PICK v : r \in Seq(v)
  BY DEF IsList
<1>2. PICK w : r \in Seq(w) /\ a \in w /\ b \in w
  <2>1. r \in Seq(v \cup {a, b})
    BY <1>1
  <2>. QED  BY <2>1
<1> DEFINE p == <<a>>
           q == <<b>>
<1>3. <<a, b>> = p \o q
  BY <1>2, TwoOnes
<1>4. p \in Seq(w) /\ q \in Seq(w)
  BY <1>2
<1>. HIDE DEF p, q
<1>5. (p \o q) \o r = p \o (q \o r)
  BY <1>2, <1>4, ConcatTurns
<1>. QED  BY <1>3, <1>5 DEF Then, p, q

\* three,
LEMMA ThreeByOne ==
  ASSUME NEW r, IsList(r), NEW a, NEW b, NEW c
  PROVE  <<a, b, c>> \o r = Then(a, Then(b, Then(c, r)))
<1>1. PICK v : r \in Seq(v)
  BY DEF IsList
<1>2. PICK w : r \in Seq(w) /\ <<a>> \in Seq(w) /\ <<b, c>> \in Seq(w)
  <2>1. r \in Seq(v \cup {a, b, c}) /\ <<a>> \in Seq(v \cup {a, b, c})
        /\ <<b, c>> \in Seq(v \cup {a, b, c})
    BY <1>1
  <2>. QED  BY <2>1
<1>3. <<a, b, c>> = <<a>> \o <<b, c>>
  BY <1>2
<1>4. (<<a>> \o <<b, c>>) \o r = <<a>> \o (<<b, c>> \o r)
  BY <1>2, ConcatTurns
<1>5. <<b, c>> \o r = Then(b, Then(c, r))
  BY TwoByOne
<1>. QED  BY <1>3, <1>4, <1>5 DEF Then

\* or four.
LEMMA FourByOne ==
  ASSUME NEW r, IsList(r), NEW a, NEW b, NEW c, NEW d
  PROVE  <<a, b, c, d>> \o r = Then(a, Then(b, Then(c, Then(d, r))))
<1>1. PICK v : r \in Seq(v)
  BY DEF IsList
<1>2. PICK w : r \in Seq(w) /\ <<a>> \in Seq(w) /\ <<b, c, d>> \in Seq(w)
  <2>1. r \in Seq(v \cup {a, b, c, d}) /\ <<a>> \in Seq(v \cup {a, b, c, d})
        /\ <<b, c, d>> \in Seq(v \cup {a, b, c, d})
    BY <1>1
  <2>. QED  BY <2>1
<1>3. <<a, b, c, d>> = <<a>> \o <<b, c, d>>
  BY <1>2
<1>4. (<<a>> \o <<b, c, d>>) \o r = <<a>> \o (<<b, c, d>> \o r)
  BY <1>2, ConcatTurns
<1>5. <<b, c, d>> \o r = Then(b, Then(c, Then(d, r)))
  BY ThreeByOne
<1>. QED  BY <1>3, <1>4, <1>5 DEF Then

\* A list of loose calls, with one more and with one less
LEMMA HarmlessThen ==
  ASSUME NEW r, Harmless(r)
  PROVE  /\ IsList(r) /\ \A k \in DOMAIN r : Loose(r[k])
         /\ \A x : Loose(x) => Harmless(Then(x, r))
         /\ r # <<>> => Loose(Head(r)) /\ Harmless(Tail(r)) /\ r = Then(Head(r), Tail(r))
<1>1. PICK v : r \in Seq(v) /\ \A x \in v : Loose(x)
  BY DEF Harmless
<1>2. IsList(r) /\ \A k \in DOMAIN r : Loose(r[k])
  BY <1>1 DEF IsList
<1>3. ASSUME NEW x, Loose(x) PROVE Harmless(Then(x, r))
  <2>1. <<x>> \o r \in Seq(v \cup {x})
    BY <1>1
  <2>. QED  BY <2>1, <1>1, <1>3 DEF Harmless, Then
<1>4. r # <<>> => Loose(Head(r)) /\ Harmless(Tail(r)) /\ r = Then(Head(r), Tail(r))
  BY <1>1 DEF Harmless, Then
<1>. QED  BY <1>2, <1>3, <1>4

\* Which actions a call allows.
LEMMA ActionOf ==
  ASSUME FbNext
  PROVE  /\ todo # <<>>
         /\ Head(todo).op = "map" => Map
         /\ Head(todo).op = "unmap" => Unmap
         /\ Head(todo).op = "paint" => DrawPoint \/ Drawn0
         /\ Head(todo).op = "wipe" => WipeOne
         /\ Head(todo).op = "switch" => Switch
         /\ Head(todo).op = "flash_block" => FlashBlock
         /\ Head(todo).op = "frame" => FlashBlockFrame
         /\ Head(todo).op = "BMP" => DrawBMP
         /\ Head(todo).op = "flash_BMP" => FlashBMP
         /\ Head(todo).op = "turn" => FlashBMPFrame
         /\ Head(todo).op \in {"map", "unmap", "paint", "wipe", "switch", "flash_block", "frame",
                               "BMP", "flash_BMP", "turn"}
  BY DEF FbNext, Map, Unmap, DrawPoint, Drawn0, WipeOne, Switch, FlashBlock, FlashBlockFrame,
         DrawBMP, FlashBMP, FlashBMPFrame, Call

-----------------------------------------------------------------------------
\* Nothing is claimed of what is left.
LEMMA HarmlessStep ==
  ASSUME Harmless(todo), IsMemory, FbNext
  PROVE  Harmless(todo)' /\ IsMemory'
<1> DEFINE h == Head(todo)
           r == Tail(todo)
<1>1. todo # <<>>
  BY ActionOf
<1>2. Loose(h) /\ Harmless(r) /\ IsList(r)
  BY <1>1, HarmlessThen
<1>3. Harmless(<<>>)
  <2>1. <<>> \in Seq({}) /\ \A x \in {} : Loose(x)
    OBVIOUS
  <2>. QED  BY <2>1 DEF Harmless
<1>. HIDE DEF h, r
<1>4. ASSUME NEW x, NEW y, NEW z, NEW u
      PROVE  /\ Loose(x) => Harmless(<<x>> \o r)
             /\ Harmless(<<>> \o r)
             /\ Loose(x) /\ Loose(y) /\ Loose(z) /\ Loose(u)
                  => Harmless(<<x, y, z, u>> \o r)
  <2>1. <<>> \o r = r /\ <<x>> \o r = Then(x, r)
    BY <1>2, OneByOne
  <2>3. <<x, y, z, u>> \o r = Then(x, Then(y, Then(z, Then(u, r))))
    BY <1>2, FourByOne
  <2>2. ASSUME NEW a, NEW s, Loose(a), Harmless(s) PROVE Harmless(Then(a, s))
    BY <2>2, HarmlessThen
  <2>. QED  BY <1>2, <2>1, <2>2, <2>3
<1>5. \A b, points : Loose(Paint(b, points))
  BY DEF Loose, Paint
<1>6. Loose(switch_vscreen)
  BY DEF Loose, switch_vscreen
<1>7. UNCHANGED memory => IsMemory'
  BY DEF IsMemory
<1>8. CASE Map \/ Unmap \/ Drawn0 \/ Switch
  BY <1>8, <1>4, <1>7 DEF Map, Unmap, Drawn0, Switch, Becomes, r
<1>9. CASE DrawPoint
  <2>1. CASE h.buff \in mapped /\ Head(h.points)[1] \in Cells
    <3>1. Becomes(<<[h EXCEPT !.points = Tail(@)]>>)
      BY <1>9, <2>1 DEF DrawPoint, h
    <3>2. memory' = [memory EXCEPT ![h.buff][Head(h.points)[1]] = Head(h.points)[2]]
      BY <1>9, <2>1 DEF DrawPoint, h
    <3>3. Loose([h EXCEPT !.points = Tail(@)])
      BY <1>2, <1>9 DEF Loose, DrawPoint, Call, h
    <3>4. IsMemory'
      <4>1. PICK v : memory \in [0 .. 2 -> [Cells -> v]]
        BY DEF IsMemory
      <4>2. memory' \in [0 .. 2 -> [Cells -> v \cup {Head(h.points)[2]}]]
        BY <4>1, <3>2
      <4>. QED  BY <4>2 DEF IsMemory
    <3>. QED  BY <3>1, <3>3, <3>4, <1>4 DEF Becomes, r
  <2>2. CASE ~(h.buff \in mapped /\ Head(h.points)[1] \in Cells)
    BY <2>2, <1>9, <1>3, <1>7 DEF DrawPoint, h
  <2>. QED  BY <2>1, <2>2
<1>10. CASE WipeOne
  BY <1>10, <1>4, <1>5, <1>7 DEF WipeOne, Becomes, r
<1>11. CASE FlashBlock \/ FlashBMP \/ FlashBMPFrame
  BY <1>11, <1>2 DEF FlashBlock, FlashBMP, FlashBMPFrame, Call, Loose, h
<1>12. CASE FlashBlockFrame
  <2>1. h.op = "frame" /\ UNCHANGED memory
    BY <1>12 DEF FlashBlockFrame, Call, h
  <2>2. Loose([h EXCEPT !.i = @ + 1])
    BY <2>1, <1>2 DEF Loose
  <2>3. Loose(Erase(h.call, h.i)) /\ \A c, i, color, s : Loose(BlockAt(c, i, color, s))
    BY <1>5 DEF Erase, BlockAt
  <2>4. \/ todo' = <<>> \o r
        \/ \E c, i, color, s : todo' = <<Erase(h.call, h.i), BlockAt(c, i, color, s), switch_vscreen,
                                         [h EXCEPT !.i = @ + 1]>> \o r
    BY <1>12 DEF FlashBlockFrame, Becomes, h, r
  <2>. QED  BY <2>1, <2>2, <2>3, <2>4, <1>4, <1>6, <1>7
<1>13. CASE DrawBMP
  BY <1>13, <1>4, <1>5, <1>7 DEF DrawBMP, Becomes, r
<1>. QED  BY <1>8, <1>9, <1>10, <1>11, <1>12, <1>13 DEF FbNext

\* The program has mapped fb0, draws in it and shows screen u of it.
On(u) == /\ u \in Screens /\ SCREEN_USING = u /\ yoffset = u * Rows
         /\ 0 \in mapped /\ IsMemory
OnCells(points) == \E v : points \in Seq(v) /\ \A p \in v : p[1] \in Cells

\* A step while points of fb0 are drawn
LEMMA PaintStep ==
  ASSUME NEW points, NEW r, IsList(r), todo = Then(Paint(0, points), r), OnCells(points),
         0 \in mapped, FbNext
  PROVE  /\ UNCHANGED <<mapped, yoffset, SCREEN_USING>>
         /\ \/ /\ points # <<>> /\ Head(points)[1] \in Cells /\ PointDrawn(Head(points))
               /\ todo' = Then(Paint(0, Tail(points)), r) /\ OnCells(Tail(points))
            \/ points = <<>> /\ UNCHANGED memory /\ todo' = r
<1>1. Head(todo) = Paint(0, points) /\ Tail(todo) = r
  BY ThenIs
<1>2. DrawPoint \/ Drawn0
  BY <1>1, ActionOf DEF Paint
<1>3. PICK v : points \in Seq(v) /\ \A p \in v : p[1] \in Cells
  BY DEF OnCells
<1>4. CASE points = <<>>
  <2>1. Drawn0
    BY <1>1, <1>2, <1>4 DEF DrawPoint, Paint
  <2>2. todo' = <<>> \o r
    BY <2>1, <1>1 DEF Drawn0, Becomes
  <2>3. todo' = r
    BY <2>2, OneByOne
  <2>4. UNCHANGED <<mapped, yoffset, SCREEN_USING>> /\ UNCHANGED memory
    BY <2>1 DEF Drawn0
  <2>. QED  BY <1>4, <2>3, <2>4
<1>5. CASE points # <<>>
  <2>1. Head(points) \in v /\ Tail(points) \in Seq(v)
    BY <1>3, <1>5
  <2>2. DrawPoint
    BY <1>1, <1>2, <1>5 DEF Drawn0, Paint
  <2>3. [Paint(0, points) EXCEPT !.points = Tail(@)] = Paint(0, Tail(points))
    <3>1. Paint(0, points) \in [op : {"paint"}, buff : {0}, points : {points}]
      BY DEF Paint
    <3>2. [Paint(0, points) EXCEPT !.points = Tail(@)] \in
            [op : {"paint"}, buff : {0}, points : {Tail(points)}]
      BY <3>1
    <3>3. \A x \in [op : {"paint"}, buff : {0}, points : {Tail(points)}] : x = Paint(0, Tail(points))
      BY DEF Paint
    <3>. QED  BY <3>2, <3>3
  <2>4. Paint(0, points).buff = 0 /\ Paint(0, points).points = points
    BY DEF Paint
  <2>5. Becomes(<<Paint(0, Tail(points))>>) /\ PointDrawn(Head(points))
        /\ UNCHANGED <<mapped, yoffset, SCREEN_USING>>
    BY <1>1, <1>3, <2>1, <2>2, <2>3, <2>4 DEF DrawPoint, PointDrawn
  <2>6. todo' = <<Paint(0, Tail(points))>> \o r
    BY <2>5, <1>1 DEF Becomes
  <2>7. todo' = Then(Paint(0, Tail(points)), r)
    BY <2>6, OneByOne
  <2>. QED  BY <1>3, <1>5, <2>1, <2>5, <2>7 DEF OnCells
<1>. QED  BY <1>4, <1>5

\* A step that switches screens
LEMMA SwitchStep ==
  ASSUME NEW u, On(u), NEW r, IsList(r), todo = Then(switch_vscreen, r), FbNext
  PROVE  On(1 - u)' /\ todo' = r /\ UNCHANGED memory
<1>1. Head(todo) = switch_vscreen /\ Tail(todo) = r
  BY ThenIs
<1>2. Switch
  BY <1>1, ActionOf DEF switch_vscreen
<1>3. todo' = r
  BY <1>1, <1>2, OneByOne DEF Switch, Becomes
<1>4. Rows \in Nat
  BY FrambufferAssumption
<1>5. u \in {0, 1} /\ 1 - u \in {0, 1} /\ UNCHANGED <<memory, mapped>> /\ 0 \in mapped /\ SCREEN_USING' = 1 - u
  BY <1>2 DEF On, Screens, Switch
<1>6. yoffset' = (1 - u) * Rows
  BY <1>2, <1>4, <1>5 DEF Switch, On, V_SCREEN0
<1>7. IsMemory'
  BY <1>5 DEF On, IsMemory
<1>. QED  BY <1>3, <1>5, <1>6, <1>7 DEF On, Screens

\* What a drawing, or none, leaves of On
LEMMA OnKept ==
  ASSUME NEW u, On(u), UNCHANGED <<mapped, yoffset, SCREEN_USING>>,
         UNCHANGED memory \/ \E p : p[1] \in Cells /\ PointDrawn(p)
  PROVE  On(u)'
<1>1. IsMemory'
  <2>1. CASE UNCHANGED memory
    BY <2>1 DEF On, IsMemory
  <2>2. ASSUME NEW p, p[1] \in Cells, PointDrawn(p) PROVE IsMemory'
    BY <2>2, PointIs DEF On
  <2>. QED  BY <2>1, <2>2
<1>. QED  BY <1>1 DEF On

-----------------------------------------------------------------------------
\* Before draw_flash_block and draw_flash_BMP the demonstrations wipe both
\* screens, at once or one after the other.

Half(s) == s * screen0size .. s * screen0size + screen0size - 1
BlackPoints == {<<a, Black>> : a \in Cells}
Wipes == {wipe_screen(0), wipe_oldscreen(0)} \cup {Paint(0, points) : points \in Seq(BlackPoints)}
Covers(x, a) ==
  IF x.op = "wipe" THEN a \in Half(IF x.old THEN 1 ELSE 0)
  ELSE \E j \in 1 .. Len(x.points) : x.points[j][1] = a
Wiping(pre) == pre \in Seq(Wipes) /\ \A a \in Cells : memory[0][a] = Black
                                                      \/ \E j \in 1 .. Len(pre) : Covers(pre[j], a)

Clearing(h, pre, r) == On(0) /\ Wiping(pre) /\ Harmless(r) /\ todo = pre \o Then(h, r)

\* What wipe_screen and wipe_oldscreen come to
LEMMA WipeCovers ==
  ASSUME NEW s \in Screens
  PROVE  /\ Wipe(s * screen0size, screen0size) \in Seq(BlackPoints)
         /\ Paint(0, Wipe(s * screen0size, screen0size)) \in Wipes
         /\ \A a \in Half(s) : Covers(Paint(0, Wipe(s * screen0size, screen0size)), a)
<1> DEFINE n == screen0size
           points == Wipe(s * n, n)
<1>1. n \in Nat /\ Cells = 0 .. 2 * n - 1
  BY FrambufferAssumption DEF screen0size, Cells, screensize
<1>. HIDE DEF n
<1>2. s * n \in Nat /\ s * n + n <= 2 * n
  BY <1>1 DEF Screens
<1>3. points \in [1 .. n -> BlackPoints]
  BY <1>1, <1>2 DEF Wipe, BlackPoints
<1>4. points \in Seq(BlackPoints) /\ Len(points) = n
  BY <1>1, <1>3
<1>5. \A a \in Half(s) : \E j \in 1 .. n : points[j][1] = a
  <2>1. SUFFICES ASSUME NEW a \in s * n .. s * n + n - 1 PROVE \E j \in 1 .. n : points[j][1] = a
    BY DEF Half, n
  <2>2. a - s * n + 1 \in 1 .. n /\ s * n + (a - s * n + 1) - 1 = a
    BY <1>1, <1>2
  <2>. QED  BY <2>2 DEF Wipe
<1>. HIDE DEF points
<1>6. Paint(0, points) \in Wipes
  BY <1>4 DEF Wipes
<1>7. \A a \in Half(s) : Covers(Paint(0, points), a)
  BY <1>4, <1>5 DEF Covers, Paint
<1>. QED  BY <1>4, <1>6, <1>7 DEF points, n

\* A step of it, as long as there is something to wipe
LEMMA ClearingStep ==
  ASSUME NEW h, NEW pre, NEW r, Clearing(h, pre, r), pre # <<>>, FbNext
  PROVE  \E rest : Clearing(h, rest, r)'
<1> DEFINE x == Head(pre)
           t == Then(h, r)
           q == Tail(pre) \o t
<1>1. IsList(r) /\ IsList(t)
  BY HarmlessThen, ThenIs DEF Clearing
<1>2. /\ pre \in Seq(Wipes) /\ x \in Wipes /\ x = pre[1] /\ Tail(pre) \in Seq(Wipes)
      /\ Len(pre) \in Nat \ {0} /\ Len(Tail(pre)) = Len(pre) - 1
      /\ \A j \in 1 .. Len(pre) - 1 : Tail(pre)[j] = pre[j + 1]
  BY DEF Clearing, Wiping
<1>3. pre \o t = Then(x, q) /\ IsList(q)
  <2>1. PICK v : t \in Seq(v)
    BY <1>1 DEF IsList
  <2>. HIDE DEF t
  <2>2. PICK w : w = v \cup Wipes
    OBVIOUS
  <2>3. t \in Seq(w) /\ pre \in Seq(w) /\ x \in w /\ Tail(pre) \in Seq(w) /\ pre = Then(x, Tail(pre))
    BY <2>1, <2>2, <1>2 DEF Then
  <2>4. PICK e : e = <<x>>
    OBVIOUS
  <2>5. e \in Seq(w) /\ pre = e \o Tail(pre)
    BY <2>3, <2>4 DEF Then
  <2>6. (e \o Tail(pre)) \o t = e \o (Tail(pre) \o t) /\ Tail(pre) \o t \in Seq(w)
    BY <2>3, <2>5, ConcatTurns
  <2>. QED  BY <2>4, <2>5, <2>6 DEF Then, IsList
<1>4. todo = Then(x, q)
  BY <1>3 DEF Clearing
<1>5. Head(todo) = x /\ Tail(todo) = q
  BY <1>3, <1>4, ThenIs
<1>. HIDE DEF x, q, t
<1>6. ASSUME NEW y \in Wipes, todo' = Then(y, q), On(0)',
             \A a \in Cells : memory'[0][a] = Black \/ Covers(y, a)
                              \/ (memory'[0][a] = memory[0][a] /\ ~Covers(x, a))
      PROVE  Clearing(h, Then(y, Tail(pre)), r)'
  <2>0. IsList(Tail(pre))
    BY <1>2 DEF IsList
  <2>1. Then(y, Tail(pre)) \in Seq(Wipes) /\ Len(Then(y, Tail(pre))) = Len(pre)
        /\ Then(y, Tail(pre))[1] = y
        /\ \A j \in 1 .. Len(pre) - 1 : Then(y, Tail(pre))[j + 1] = pre[j + 1]
    <3>1. Then(y, Tail(pre)) \in Seq(Wipes)
      BY <1>2 DEF Then
    <3>2. /\ Len(Then(y, Tail(pre))) = Len(Tail(pre)) + 1 /\ Then(y, Tail(pre))[1] = y
          /\ \A k \in 1 .. Len(Tail(pre)) : Then(y, Tail(pre))[k + 1] = Tail(pre)[k]
      <4> DEFINE z == Tail(pre)
      <4>1. IsList(z)
        BY <2>0
      <4>. HIDE DEF z
      <4>2. /\ Len(Then(y, z)) = Len(z) + 1 /\ Then(y, z)[1] = y
            /\ \A k \in 1 .. Len(z) : Then(y, z)[k + 1] = z[k]
        BY <4>1, ThenIs
      <4>. QED  BY <4>2 DEF z
    <3>. QED  BY <3>1, <3>2, <1>2
  <2>2. ASSUME NEW a \in Cells
        PROVE  memory'[0][a] = Black \/ \E j \in 1 .. Len(Then(y, Tail(pre))) :
                                          Covers(Then(y, Tail(pre))[j], a)
    <3>1. CASE memory'[0][a] = Black
      BY <3>1
    <3>2. CASE Covers(y, a)
      BY <3>2, <2>1, <1>2
    <3>3. CASE memory'[0][a] # Black /\ memory'[0][a] = memory[0][a] /\ ~Covers(x, a)
      <4>1. PICK j \in 1 .. Len(pre) : Covers(pre[j], a)
        BY <3>3 DEF Clearing, Wiping
      <4>2. j # 1
        BY <4>1, <3>3, <1>2
      <4>3. j - 1 \in 1 .. Len(pre) - 1 /\ (j - 1) + 1 = j
        BY <4>2, <1>2
      <4>4. Then(y, Tail(pre))[j] = pre[j]
        BY <4>3, <2>1
      <4>. QED  BY <4>1, <4>4, <2>1
    <3>. QED  BY <3>1, <3>2, <3>3, <1>6
  <2>3. todo' = Then(y, Tail(pre)) \o t
    <3>1. PICK v : t \in Seq(v)
      BY <1>1 DEF IsList
    <3>2. PICK w : w = v \cup Wipes
      OBVIOUS
    <3>3. t \in Seq(w) /\ y \in w /\ Tail(pre) \in Seq(w)
      BY <3>1, <3>2, <1>2
    <3>4. PICK e : e = <<y>>
      OBVIOUS
    <3>5. e \in Seq(w)
      BY <3>3, <3>4
    <3>6. (e \o Tail(pre)) \o t = e \o (Tail(pre) \o t)
      BY <3>3, <3>5, ConcatTurns
    <3>. QED  BY <3>4, <3>6, <1>6 DEF Then, q
  <2>. QED  BY <1>6, <2>1, <2>2, <2>3 DEF Clearing, Wiping, Harmless, t
<1>7. CASE x \in {wipe_screen(0), wipe_oldscreen(0)}
  <2> DEFINE s == IF x.old THEN 1 ELSE 0
             points == Wipe(s * screen0size, screen0size)
  <2>1. x.op = "wipe" /\ x.buff = 0 /\ s \in Screens /\ x.old \in BOOLEAN
    <3>1. CASE x = wipe_screen(0)
      BY <3>1 DEF wipe_screen, Screens
    <3>2. CASE x = wipe_oldscreen(0)
      BY <3>2 DEF wipe_oldscreen, Screens
    <3>. QED  BY <1>7, <3>1, <3>2
  <2>2. WipeOne
    BY <1>5, <2>1, ActionOf
  <2>3. Becomes(<<Paint(0, points)>>) /\ UNCHANGED <<memory, mapped, yoffset, SCREEN_USING>>
    BY <2>2, <2>1, <1>5 DEF WipeOne, Clearing, On, V_SCREEN1
  <2>4. todo' = Then(Paint(0, points), q)
    BY <2>3, <1>3, <1>5, OneByOne DEF Becomes
  <2>5. Paint(0, points) \in Wipes /\ \A a \in Half(s) : Covers(Paint(0, points), a)
    BY <2>1, WipeCovers
  <2>6. On(0)'
    BY <2>3, OnKept DEF Clearing
  <2>7. \A a \in Cells : Covers(Paint(0, points), a) \/ ~Covers(x, a)
    BY <2>1, <2>5 DEF Covers
  <2>. QED  BY <2>3, <2>4, <2>5, <2>6, <2>7, <1>6
<1>8. ASSUME NEW points \in Seq(BlackPoints), x = Paint(0, points)
      PROVE  \E rest : Clearing(h, rest, r)'
  <2>1. OnCells(points)
    BY DEF OnCells, BlackPoints
  <2>2. 0 \in mapped /\ IsMemory
    BY DEF Clearing, On
  <2>3. CASE points # <<>> /\ Head(points)[1] \in Cells /\ PointDrawn(Head(points))
             /\ todo' = Then(Paint(0, Tail(points)), q) /\ UNCHANGED <<mapped, yoffset, SCREEN_USING>>
    <3>1. On(0)'
      BY <2>3, OnKept DEF Clearing
    <3>2. /\ Head(points) \in BlackPoints /\ Tail(points) \in Seq(BlackPoints)
          /\ Head(points) = points[1] /\ Len(points) \in Nat \ {0}
          /\ Len(Tail(points)) = Len(points) - 1
          /\ \A j \in 1 .. Len(points) - 1 : Tail(points)[j] = points[j + 1]
      BY <2>3
    <3>3. Paint(0, Tail(points)) \in Wipes
      BY <3>2 DEF Wipes
    <3>4. /\ memory'[0][Head(points)[1]] = Black
          /\ \A a \in Cells : a # Head(points)[1] => memory'[0][a] = memory[0][a]
      BY <2>2, <2>3, <3>2, PointIs DEF BlackPoints
    <3>5. ASSUME NEW a \in Cells
          PROVE  memory'[0][a] = Black \/ Covers(Paint(0, Tail(points)), a)
                 \/ (memory'[0][a] = memory[0][a] /\ ~Covers(x, a))
      <4>1. CASE a = Head(points)[1]
        BY <4>1, <3>4
      <4>2. CASE a # Head(points)[1] /\ Covers(x, a)
        <5>1. PICK j \in 1 .. Len(points) : points[j][1] = a
          BY <4>2, <1>8 DEF Covers, Paint
        <5>2. j - 1 \in 1 .. Len(points) - 1 /\ (j - 1) + 1 = j
          BY <5>1, <4>2, <3>2
        <5>3. Tail(points)[j - 1][1] = a /\ j - 1 \in 1 .. Len(Tail(points))
          BY <5>1, <5>2, <3>2
        <5>. QED  BY <5>3 DEF Covers, Paint
      <4>3. CASE a # Head(points)[1] /\ ~Covers(x, a)
        BY <4>3, <3>4
      <4>. QED  BY <4>1, <4>2, <4>3
    <3>. QED  BY <3>1, <3>3, <3>5, <2>3, <1>6
  <2>4. CASE points = <<>> /\ UNCHANGED memory /\ todo' = q /\ UNCHANGED <<mapped, yoffset, SCREEN_USING>>
    <3>1. On(0)'
      BY <2>4, OnKept DEF Clearing
    <3>2. \A a \in Cells : ~Covers(x, a)
      <4>1. Len(points) = 0
        BY <2>4
      <4>. QED  BY <4>1, <1>8 DEF Covers, Paint
    <3>3. ASSUME NEW a \in Cells
          PROVE  memory'[0][a] = Black \/ \E j \in 1 .. Len(Tail(pre)) : Covers(Tail(pre)[j], a)
      <4>1. CASE memory[0][a] = Black
        BY <4>1, <2>4
      <4>2. CASE memory[0][a] # Black
        <5>1. PICK j \in 1 .. Len(pre) : Covers(pre[j], a)
          BY <4>2 DEF Clearing, Wiping
        <5>2. j # 1
          BY <5>1, <3>2, <1>2
        <5>3. j - 1 \in 1 .. Len(pre) - 1 /\ (j - 1) + 1 = j
          BY <5>2, <1>2
        <5>. QED  BY <5>1, <5>3, <1>2
      <4>. QED  BY <4>1, <4>2
    <3>. QED  BY <3>1, <3>3, <2>4, <1>2 DEF Clearing, Wiping, Harmless, q, t
  <2>. QED  BY <2>1, <2>2, <2>3, <2>4, <1>3, <1>4, <1>8, PaintStep
<1>. QED  BY <1>2, <1>7, <1>8 DEF Wipes

-----------------------------------------------------------------------------
\* Quotient and remainder are numbers,
LEMMA Division ==
  ASSUME NEW n \in Nat \ {0}, NEW m \in Nat
  PROVE  m \div n \in Nat /\ m % n \in 0 .. n - 1 /\ n * (m \div n) <= m
<1>1. n * (m \div n) <= m
  OBVIOUS
<1>2. m \div n \in Nat
  OBVIOUS
<1>3. m % n \in 0 .. n - 1
  OBVIOUS
<1>. QED  BY <1>1, <1>2, <1>3

\* and are known by what they make together.
LEMMA Quotients ==
  ASSUME NEW n \in Nat \ {0}, NEW m \in Nat, NEW q \in Int, NEW r \in 0 .. n - 1, m = n * q + r
  PROVE  m \div n = q /\ m % n = r
<1>1. q = m \div n
  OBVIOUS
<1>2. r = m % n
  OBVIOUS
<1>. QED  BY <1>1, <1>2

\* A number below n * h is one below n and one below h, in one way.
LEMMA Places ==
  ASSUME NEW n \in Nat \ {0}, NEW h \in Nat
  PROVE  /\ n * h \in Nat
         /\ \A k \in 1 .. n * h : (k - 1) % n \in 0 .. n - 1 /\ (k - 1) \div n \in 0 .. h - 1
         /\ \A i \in 0 .. n - 1, j \in 0 .. h - 1 : \E k \in 1 .. n * h :
              (k - 1) % n = i /\ (k - 1) \div n = j
<1>1. n * h \in Nat
  OBVIOUS
<1>2. ASSUME NEW k \in 1 .. n * h
      PROVE  (k - 1) % n \in 0 .. n - 1 /\ (k - 1) \div n \in 0 .. h - 1
  <2>1. k - 1 \in Nat /\ k - 1 < n * h
    BY <1>1
  <2>2. PICK q : q = (k - 1) \div n
    OBVIOUS
  <2>3. q \in Nat /\ n * q <= k - 1 /\ (k - 1) % n \in 0 .. n - 1
    BY <2>1, <2>2, Division
  <2>4. ~(q >= h)
    <3>1. SUFFICES ASSUME q >= h PROVE FALSE
      OBVIOUS
    <3>2. PICK d \in Nat : q = h + d
      <4>1. q - h \in Nat /\ q = h + (q - h)
        BY <2>3, <3>1
      <4>. QED  BY <4>1
    <3>3. n * q = n * h + n * d /\ n * d \in Nat /\ n * q \in Nat
      BY <3>2
    <3>. QED  BY <3>3, <2>1, <2>3, <1>1
  <2>. QED  BY <2>2, <2>3, <2>4
<1>3. ASSUME NEW i \in 0 .. n - 1, NEW j \in 0 .. h - 1
      PROVE  \E k \in 1 .. n * h : (k - 1) % n = i /\ (k - 1) \div n = j
  <2>1. PICK m \in Nat : m = n * j + i
    <3>1. n * j + i \in Nat
      OBVIOUS
    <3>. QED  BY <3>1
  <2>2. m < n * h
    <3>1. PICK d \in Nat : h = j + 1 + d
      <4>1. h - j - 1 \in Nat /\ h = j + 1 + (h - j - 1)
        OBVIOUS
      <4>. QED  BY <4>1
    <3>2. n * h = n * j + n + n * d /\ n * d \in Nat /\ n * j \in Nat
      BY <3>1
    <3>. QED  BY <3>2, <2>1
  <2>3. m \div n = j /\ m % n = i
    BY <2>1, Quotients
  <2>4. m + 1 \in 1 .. n * h /\ (m + 1) - 1 = m
    BY <2>2, <1>1
  <2>. QED  BY <2>3, <2>4
<1>. QED  BY <1>1, <1>2, <1>3

-----------------------------------------------------------------------------
\* draw_flash_block with a block that runs over the screen
IsBlock(c) == /\ c.op = "flash_block" /\ c.steps = Steps /\ Fits(c.block)
InBlock(c, x, row, col) == /\ row > c.block.ymin /\ row <= c.block.ymax
                           /\ col >= c.block.xmin + x /\ col < c.block.xmax + x
\* a screen with the block at place x, and one without
WithBlock(c, s, x) == {<<CellAt(s, row, col), IF InBlock(c, x, row, col) THEN c.color ELSE Black>> :
                         row \in 0 .. Rows - 1, col \in 0 .. Columns - 1}
Empty(s) == {<<CellAt(s, row, col), Black>> : row \in 0 .. Rows - 1, col \in 0 .. Columns - 1}

\* Neither of them has two colours in one cell.
LEMMA ScreenPictures ==
  ASSUME NEW c, NEW s \in Screens, NEW x
  PROVE  /\ Picture(WithBlock(c, s, x)) /\ \A p \in WithBlock(c, s, x) : p[1] \in Cells
         /\ Picture(Empty(s)) /\ \A p \in Empty(s) : p[1] \in Cells
<1>1. ASSUME NEW row \in 0 .. Rows - 1, NEW col \in 0 .. Columns - 1,
             NEW line \in 0 .. Rows - 1, NEW place \in 0 .. Columns - 1
      PROVE  CellAt(s, row, col) \in Cells
             /\ (CellAt(s, row, col) = CellAt(s, line, place) => row = line /\ col = place)
  BY CellsDiffer
<1>2. Picture(WithBlock(c, s, x)) /\ \A p \in WithBlock(c, s, x) : p[1] \in Cells
  <2>1. \A p \in WithBlock(c, s, x) : p[1] \in Cells
    BY <1>1 DEF WithBlock
  <2>2. SUFFICES ASSUME NEW p \in WithBlock(c, s, x), NEW q \in WithBlock(c, s, x), p[1] = q[1]
                 PROVE  p = q
    BY <2>1 DEF Picture
  <2>3. PICK row \in 0 .. Rows - 1, col \in 0 .. Columns - 1 :
          p = <<CellAt(s, row, col), IF InBlock(c, x, row, col) THEN c.color ELSE Black>>
    BY DEF WithBlock
  <2>4. PICK line \in 0 .. Rows - 1, place \in 0 .. Columns - 1 :
          q = <<CellAt(s, line, place), IF InBlock(c, x, line, place) THEN c.color ELSE Black>>
    BY DEF WithBlock
  <2>. QED  BY <1>1, <2>2, <2>3, <2>4
<1>3. Picture(Empty(s)) /\ \A p \in Empty(s) : p[1] \in Cells
  BY <1>1 DEF Empty, Picture
<1>. QED  BY <1>2, <1>3

\* Points on one screen are not on the other.
LEMMA OtherScreen ==
  ASSUME NEW s \in Screens, NEW v, NEW points \in Seq(v),
         \A p \in v : \E row \in 0 .. Rows - 1, col \in 0 .. Columns - 1 : p[1] = CellAt(s, row, col),
         NEW w, \A p \in w : \E row \in 0 .. Rows - 1, col \in 0 .. Columns - 1 : p[1] = CellAt(1 - s, row, col)
  PROVE  Avoids(points, w)
<1>1. SUFFICES ASSUME NEW j \in 1 .. Len(points), NEW p \in w PROVE points[j][1] # p[1]
  BY DEF Avoids
<1>2. points[j] \in v
  OBVIOUS
<1>3. PICK row \in 0 .. Rows - 1, col \in 0 .. Columns - 1 : points[j][1] = CellAt(s, row, col)
  BY <1>2
<1>4. PICK line \in 0 .. Rows - 1, place \in 0 .. Columns - 1 : p[1] = CellAt(1 - s, line, place)
  OBVIOUS
<1>5. 1 - s \in Screens /\ s # 1 - s
  BY DEF Screens
<1>6. CellAt(s, row, col) # CellAt(1 - s, line, place)
  BY <1>5, CellsDiffer
<1>. QED  BY <1>3, <1>4, <1>6

\* What draw_vblock draws of a block
PointsOf(c, s, x, color) ==
  draw_vblock(c.block.xmin + x, c.block.xmax + x, c.block.ymin, c.block.ymax, color, s)
PlacesOf(c, s, x, color) ==
  {<<CellAt(s, row, col), color>> : row \in c.block.ymin + 1 .. c.block.ymax,
                                col \in c.block.xmin + x .. (c.block.xmax + x) - 1}

\* These are its points: all of its places in its colour.
LEMMA BlockPoints ==
  ASSUME NEW c, IsBlock(c), NEW s \in Screens, NEW x \in Int, NEW color,
         0 <= c.block.xmin + x, c.block.xmax + x <= Columns
  PROVE  /\ PointsOf(c, s, x, color) \in Seq(PlacesOf(c, s, x, color))
         /\ \A p \in PlacesOf(c, s, x, color) : \E j \in 1 .. Len(PointsOf(c, s, x, color)) :
              PointsOf(c, s, x, color)[j] = p
<1> DEFINE xmin == c.block.xmin + x
           xmax == c.block.xmax + x
           ymin == c.block.ymin + s * Rows
           ymax == c.block.ymax + s * Rows
           n == xmax - xmin
           h == ymax - ymin
           N == n * h
           points == PointsOf(c, s, x, color)
           v == PlacesOf(c, s, x, color)
<1>1. /\ xmin \in Int /\ xmax \in Int /\ xmin < xmax /\ n \in Nat \ {0}
      /\ ymin \in Int /\ ymax \in Int /\ ymin <= ymax /\ h \in Nat
      /\ c.block.ymin \in Nat /\ c.block.ymax \in Nat /\ s * Rows \in Nat
      /\ c.block.ymin = ymin - s * Rows /\ c.block.ymax = ymax - s * Rows
  BY FrambufferAssumption DEF IsBlock, Fits, Screens
<1>2. points = [k \in 1 .. N |-> <<(ymax - ((k - 1) \div n)) * Columns + (xmin + ((k - 1) % n)), color>>]
  <2>1. Most(xmin, xmax) = xmax /\ Least(xmin, xmax) = xmin /\ Most(ymin, ymax) = ymax
        /\ Least(ymin, ymax) = ymin
    BY <1>1 DEF Least, Most
  <2>2. points = draw_block(xmin, xmax, ymin, ymax, color)
    BY DEF PointsOf, draw_vblock
  <2>. HIDE DEF xmin, xmax, ymin, ymax, points
  <2>. QED  BY <2>1, <2>2 DEF draw_block, draw_point
<1>3. v = {<<(row + s * Rows) * Columns + col, color>> : row \in c.block.ymin + 1 .. c.block.ymax,
                                                         col \in xmin .. xmax - 1}
  <2>1. \A p : p \in v <=> \E row \in c.block.ymin + 1 .. c.block.ymax, col \in xmin .. xmax - 1 :
                           p = <<CellAt(s, row, col), color>>
    BY DEF PlacesOf
  <2>. HIDE DEF xmin, xmax, v
  <2>. QED  BY <2>1 DEF CellAt
<1>. HIDE DEF xmin, xmax, ymin, ymax, points, v
<1>4. /\ N \in Nat
      /\ \A k \in 1 .. N : (k - 1) % n \in 0 .. n - 1 /\ (k - 1) \div n \in 0 .. h - 1
      /\ \A i \in 0 .. n - 1, j \in 0 .. h - 1 : \E k \in 1 .. N :
           (k - 1) % n = i /\ (k - 1) \div n = j
  BY <1>1, Places
<1>. HIDE DEF N
<1>5. ASSUME NEW k \in 1 .. N PROVE points[k] \in v
  <2>1. PICK i \in 0 .. n - 1, j \in 0 .. h - 1 : i = (k - 1) % n /\ j = (k - 1) \div n
    BY <1>4
  <2>2. points[k] = <<(ymax - j) * Columns + (xmin + i), color>>
    BY <1>2, <2>1
  <2>3. PICK row \in c.block.ymin + 1 .. c.block.ymax : row + s * Rows = ymax - j
    <3>1. ymax - j - s * Rows \in c.block.ymin + 1 .. c.block.ymax
          /\ (ymax - j - s * Rows) + s * Rows = ymax - j
      BY <1>1, <2>1
    <3>. QED  BY <3>1
  <2>4. xmin + i \in xmin .. xmax - 1
    BY <1>1, <2>1
  <2>. QED  BY <1>3, <2>2, <2>3, <2>4
<1>6. ASSUME NEW row \in c.block.ymin + 1 .. c.block.ymax, NEW col \in xmin .. xmax - 1
      PROVE  \E k \in 1 .. N : points[k] = <<(row + s * Rows) * Columns + col, color>>
  <2>1. col - xmin \in 0 .. n - 1 /\ ymax - s * Rows - row \in 0 .. h - 1
    BY <1>1
  <2>2. PICK k \in 1 .. N : (k - 1) % n = col - xmin /\ (k - 1) \div n = ymax - s * Rows - row
    BY <1>4, <2>1
  <2>3. ymax - (ymax - s * Rows - row) = row + s * Rows /\ xmin + (col - xmin) = col
    BY <1>1
  <2>. QED  BY <1>2, <2>2, <2>3
<1>. HIDE DEF n, h
<1>7. points \in [1 .. N -> v]
  BY <1>2, <1>5
<1>8. points \in Seq(v) /\ Len(points) = N
  BY <1>4, <1>7
<1>9. ASSUME NEW p \in v PROVE \E j \in 1 .. Len(points) : points[j] = p
  <2>1. PICK row \in c.block.ymin + 1 .. c.block.ymax, col \in xmin .. xmax - 1 :
          p = <<(row + s * Rows) * Columns + col, color>>
    BY <1>3
  <2>2. PICK k \in 1 .. N : points[k] = <<(row + s * Rows) * Columns + col, color>>
    BY <1>6
  <2>. QED  BY <2>1, <2>2, <1>8
<1>. QED  BY <1>8, <1>9 DEF points, v

\* where they are
LEMMA PlacesInBlock ==
  ASSUME NEW c, IsBlock(c), NEW s \in Screens, NEW x \in Int, NEW color,
         0 <= c.block.xmin + x, c.block.xmax + x <= Columns
  PROVE  /\ \A p \in PlacesOf(c, s, x, color) : \E row \in 0 .. Rows - 1, col \in 0 .. Columns - 1 :
              InBlock(c, x, row, col) /\ p = <<CellAt(s, row, col), color>>
         /\ \A row \in 0 .. Rows - 1, col \in 0 .. Columns - 1 :
              InBlock(c, x, row, col) => <<CellAt(s, row, col), color>> \in PlacesOf(c, s, x, color)
<1>1. /\ c.block.xmin \in Nat /\ c.block.xmax \in Nat /\ c.block.ymin \in Nat /\ c.block.ymax \in Nat
      /\ c.block.ymax < Rows /\ Rows \in Nat /\ Columns \in Nat
  BY FrambufferAssumption DEF IsBlock, Fits
<1>2. ASSUME NEW p \in PlacesOf(c, s, x, color)
      PROVE  \E row \in 0 .. Rows - 1, col \in 0 .. Columns - 1 :
               InBlock(c, x, row, col) /\ p = <<CellAt(s, row, col), color>>
  <2>1. PICK row \in c.block.ymin + 1 .. c.block.ymax,
             col \in c.block.xmin + x .. (c.block.xmax + x) - 1 : p = <<CellAt(s, row, col), color>>
    BY DEF PlacesOf
  <2>2. row \in 0 .. Rows - 1 /\ col \in 0 .. Columns - 1 /\ InBlock(c, x, row, col)
    BY <1>1 DEF InBlock
  <2>. QED  BY <2>1, <2>2
<1>3. ASSUME NEW row \in 0 .. Rows - 1, NEW col \in 0 .. Columns - 1, InBlock(c, x, row, col)
      PROVE  <<CellAt(s, row, col), color>> \in PlacesOf(c, s, x, color)
  <2>1. /\ row \in c.block.ymin + 1 .. c.block.ymax
        /\ col \in c.block.xmin + x .. (c.block.xmax + x) - 1
    BY <1>1, <1>3 DEF InBlock
  <2>. QED  BY <2>1 DEF PlacesOf
<1>. QED  BY <1>2, <1>3

\* Shows and Coming of any memory
ShowsIn(m, w) == \A p \in w : m[p[1]] = p[2]
BringsIn(m, points, w) ==
  points \in Seq(w) /\ \A p \in w : m[p[1]] = p[2] \/ \E j \in 1 .. Len(points) : points[j] = p

\* Drawing the block on an empty screen,
LEMMA DrawComes ==
  ASSUME NEW c, IsBlock(c), NEW s \in Screens, NEW x \in Int,
         0 <= c.block.xmin + x, c.block.xmax + x <= Columns,
         NEW m, ShowsIn(m, Empty(s))
  PROVE  BringsIn(m, PointsOf(c, s, x, c.color), WithBlock(c, s, x))
<1> DEFINE points == PointsOf(c, s, x, c.color)
           v == PlacesOf(c, s, x, c.color)
           w == WithBlock(c, s, x)
<1>1. points \in Seq(v) /\ \A p \in v : \E j \in 1 .. Len(points) : points[j] = p
  BY BlockPoints
<1>2. /\ \A p \in v : \E row \in 0 .. Rows - 1, col \in 0 .. Columns - 1 :
           InBlock(c, x, row, col) /\ p = <<CellAt(s, row, col), c.color>>
      /\ \A row \in 0 .. Rows - 1, col \in 0 .. Columns - 1 :
           InBlock(c, x, row, col) => <<CellAt(s, row, col), c.color>> \in v
  BY PlacesInBlock
<1>. HIDE DEF points, v
<1>3. v \subseteq w
  BY <1>2 DEF WithBlock
<1>4. ASSUME NEW p \in w PROVE m[p[1]] = p[2] \/ \E j \in 1 .. Len(points) : points[j] = p
  <2>1. PICK row \in 0 .. Rows - 1, col \in 0 .. Columns - 1 :
          p = <<CellAt(s, row, col), IF InBlock(c, x, row, col) THEN c.color ELSE Black>>
    BY DEF WithBlock
  <2>2. CASE InBlock(c, x, row, col)
    BY <2>1, <2>2, <1>1, <1>2
  <2>3. CASE ~InBlock(c, x, row, col)
    BY <2>1, <2>3 DEF ShowsIn, Empty
  <2>. QED  BY <2>2, <2>3
<1>5. points \in Seq(w)
  BY <1>1, <1>3
<1>. QED  BY <1>4, <1>5 DEF BringsIn, points

\* and erasing it where it is; erasing at any place leaves an empty screen empty.
LEMMA EraseComes ==
  ASSUME NEW c, IsBlock(c), NEW s \in Screens, NEW x \in Int,
         0 <= c.block.xmin + x, c.block.xmax + x <= Columns,
         NEW m, ShowsIn(m, WithBlock(c, s, x)) \/ ShowsIn(m, Empty(s))
  PROVE  BringsIn(m, PointsOf(c, s, x, Black), Empty(s))
<1> DEFINE points == PointsOf(c, s, x, Black)
           v == PlacesOf(c, s, x, Black)
           w == Empty(s)
<1>1. points \in Seq(v) /\ \A p \in v : \E j \in 1 .. Len(points) : points[j] = p
  BY BlockPoints
<1>2. /\ \A p \in v : \E row \in 0 .. Rows - 1, col \in 0 .. Columns - 1 :
           InBlock(c, x, row, col) /\ p = <<CellAt(s, row, col), Black>>
      /\ \A row \in 0 .. Rows - 1, col \in 0 .. Columns - 1 :
           InBlock(c, x, row, col) => <<CellAt(s, row, col), Black>> \in v
  BY PlacesInBlock
<1>. HIDE DEF points, v
<1>3. v \subseteq w
  BY <1>2 DEF Empty
<1>4. ASSUME NEW p \in w PROVE m[p[1]] = p[2] \/ \E j \in 1 .. Len(points) : points[j] = p
  <2>1. PICK row \in 0 .. Rows - 1, col \in 0 .. Columns - 1 : p = <<CellAt(s, row, col), Black>>
    BY DEF Empty
  <2>2. CASE InBlock(c, x, row, col)
    BY <2>1, <2>2, <1>1, <1>2
  <2>3. CASE ~InBlock(c, x, row, col) /\ ShowsIn(m, WithBlock(c, s, x))
    <3>1. <<CellAt(s, row, col), Black>> \in WithBlock(c, s, x)
      BY <2>3 DEF WithBlock
    <3>. QED  BY <2>1, <2>3, <3>1 DEF ShowsIn
  <2>4. CASE ShowsIn(m, Empty(s))
    BY <2>4 DEF ShowsIn
  <2>. QED  BY <2>2, <2>3, <2>4
<1>5. points \in Seq(w)
  BY <1>1, <1>3
<1>. QED  BY <1>4, <1>5 DEF BringsIn, points

\* With no more points to draw the picture is there.
LEMMA Came ==
  ASSUME NEW w, Coming(<<>>, w)
  PROVE  Shows(w)
<1>1. Len(<<>>) = 0
  OBVIOUS
<1>. QED  BY <1>1 DEF Coming, Shows

-----------------------------------------------------------------------------
\* cells of one screen
OnOne(v, s) == \A p \in v : \E row \in 0 .. Rows - 1, col \in 0 .. Columns - 1 : p[1] = CellAt(s, row, col)

\* A step while points of one screen are drawn: there are fewer of them, what
\* is to come still comes, and the other screen is as before.
LEMMA DrawingStep ==
  ASSUME NEW u, On(u), NEW s \in Screens, NEW v, NEW points \in Seq(v), OnOne(v, s),
         NEW r, IsList(r), todo = Then(Paint(0, points), r), FbNext
  PROVE  /\ On(u)'
         /\ \/ /\ todo' = Then(Paint(0, Tail(points)), r) /\ Tail(points) \in Seq(v)
               /\ \A w : /\ Coming(points, w) /\ Picture(w) /\ \A p \in w : p[1] \in Cells
                         => Coming(Tail(points), w)'
            \/ todo' = r /\ \A w : Coming(points, w) => Shows(w)'
         /\ \A w : Shows(w) /\ OnOne(w, 1 - s) => Shows(w)'
<1>0. 1 - s \in Screens
  BY DEF Screens
<1>1. OnCells(points) /\ 0 \in mapped /\ IsMemory
  <2>1. \A p \in v : p[1] \in Cells
    BY CellsDiffer DEF OnOne
  <2>. QED  BY <2>1 DEF OnCells, On
<1>2. UNCHANGED <<mapped, yoffset, SCREEN_USING>>
  BY <1>1, PaintStep
<1>3. CASE points # <<>> /\ Head(points)[1] \in Cells /\ PointDrawn(Head(points))
           /\ todo' = Then(Paint(0, Tail(points)), r)
  <2>1. On(u)'
    BY <1>2, <1>3, OnKept
  <2>2. ASSUME NEW w, Coming(points, w), Picture(w), \A p \in w : p[1] \in Cells
        PROVE  Coming(Tail(points), w)'
    BY <1>1, <1>3, <2>2, PointComes
  <2>3. ASSUME NEW w, Shows(w), OnOne(w, 1 - s)
        PROVE  Shows(w)'
    <3>1. Avoids(points, w)
      BY <2>3, OtherScreen DEF OnOne
    <3>2. \A p \in w : p[1] \in Cells
      BY <2>3, <1>0, CellsDiffer DEF OnOne
    <3>. QED  BY <1>1, <1>3, <2>3, <3>1, <3>2, PointLeaves
  <2>4. Tail(points) \in Seq(v)
    BY <1>3
  <2>. QED  BY <1>3, <2>1, <2>2, <2>3, <2>4
<1>4. CASE points = <<>> /\ UNCHANGED memory /\ todo' = r
  <2>1. On(u)'
    BY <1>2, <1>4, OnKept
  <2>2. \A w : Coming(points, w) => Shows(w)
    BY <1>4, Came
  <2>. QED  BY <1>4, <2>1, <2>2 DEF Shows
<1>. QED  BY <1>1, <1>3, <1>4, PaintStep

-----------------------------------------------------------------------------
\* draw_flash_BMP: a picture that is drawn whole, and its cells on a screen

Drawable(p) == /\ p.file = "whole" /\ p.bits \in {24, 32}
               /\ p.bits = 24 => Stride(p) # p.width * 3
RowOf(p, row) == IF p.height > 0 THEN p.height - 1 - row ELSE row
Copy(p, s) == {<<CellAt(s, Bias + row, Bias + col), <<p.name, RowOf(p, row), col>>>> :
                 row \in 0 .. Height(p) - 1, col \in 0 .. p.width - 1}
ScreenCells(s) == {CellAt(s, row, col) : row \in 0 .. Rows - 1, col \in 0 .. Columns - 1}
Somewhere(points, s) == \E v : points \in Seq(v) /\ OnOne(v, s)

\* The rows of a picture are where the format has them.
LEMMA RowsInFile ==
  ASSUME NEW p, OnScreen(p), Drawable(p), NEW row \in 0 .. Height(p) - 1, NEW col \in 0 .. p.width - 1
  PROVE  ColorAt(p, row * (p.width * Bytes(p) + width_offset(p)) + col * Bytes(p))
           = <<p.name, row, col>>
<1>0. p.width \in Nat \ {0} /\ Height(p) \in Nat /\ row \in Nat /\ col \in Nat
  BY DEF OnScreen, Height
<1> DEFINE b == Bytes(p)
           n == Stride(p)
           pos == row * (p.width * b + width_offset(p)) + col * b
<1>1. b \in {3, 4} /\ p.width * b + width_offset(p) = n /\ n \in Nat \ {0} /\ col * b \in 0 .. n - 1
  <2>1. CASE p.bits = 24
    <3>1. b = 3
      BY <2>1 DEF Bytes
    <3>2. n = ((p.width * 3 + 3) \div 4) * 4 /\ n # p.width * 3
      BY <3>1, <2>1 DEF Stride, Drawable
    <3>3. width_offset(p) = ((p.width * 3) \div 4) * 4 + 4 - p.width * 3
      BY <2>1 DEF width_offset
    <3>4. PICK w : w = p.width
      OBVIOUS
    <3>5. w \in Nat \ {0} /\ ((w * 3 + 3) \div 4) * 4 # w * 3
      BY <3>2, <3>4, <1>0
    <3>6. PICK q : q = (w * 3) \div 4
      OBVIOUS
    <3>7. q \in Nat /\ 4 * q <= w * 3 /\ w * 3 < 4 * q + 4
      BY <3>5, <3>6
    <3>8. w * 3 # 4 * q
      <4>1. SUFFICES ASSUME w * 3 = 4 * q PROVE FALSE
        OBVIOUS
      <4>2. (w * 3 + 3) \div 4 = q
        BY <4>1, <3>7
      <4>. QED  BY <4>1, <4>2, <3>5, <3>7
    <3>9. (w * 3 + 3) \div 4 = q + 1
      BY <3>5, <3>7, <3>8
    <3>10. n = q * 4 + 4 /\ width_offset(p) = q * 4 + 4 - w * 3
      BY <3>2, <3>3, <3>4, <3>6, <3>7, <3>9
    <3>11. n \in Nat \ {0} /\ w * 3 + width_offset(p) = n
      BY <3>10, <3>7, <3>5
    <3>12. col * 3 \in 0 .. n - 1
      <4>1. col * 3 < w * 3 /\ w * 3 < n
        BY <3>4, <3>5, <3>7, <3>10, <1>0
      <4>. QED  BY <4>1, <1>0, <3>11, <3>5
    <3>. QED  BY <3>1, <3>4, <3>11, <3>12
  <2>2. CASE p.bits = 32
    <3>1. b = 4
      BY <2>2 DEF Bytes
    <3>2. n = ((p.width * 4 + 3) \div 4) * 4
      BY <3>1 DEF Stride
    <3>3. width_offset(p) = 0
      BY <2>2 DEF width_offset
    <3>4. PICK w \in Nat \ {0} : w = p.width
      BY <1>0
    <3>5. (w * 4 + 3) \div 4 = w
      OBVIOUS
    <3>6. n = w * 4
      BY <3>2, <3>4, <3>5
    <3>. QED  BY <3>1, <3>3, <3>4, <3>6, <1>0
  <2>. QED  BY <2>1, <2>2 DEF Drawable
<1>. HIDE DEF b, n
<1>2. pos = n * row + col * b
  BY <1>0, <1>1
<1>3. pos \in Nat /\ pos \div n = row /\ pos % n = col * b
  <2>1. PICK m : m = n * row + col * b
    OBVIOUS
  <2>2. m \in Nat
    <3>1. n * row \in Nat
      BY <1>0, <1>1
    <3>. QED  BY <3>1, <2>1, <1>1
  <2>. QED  BY <2>1, <2>2, <1>0, <1>1, <1>2, Quotients
<1>4. (col * b) % b = 0 /\ (col * b) \div b = col
  BY <1>0, <1>1
<1>. HIDE DEF pos
<1>5. ColorAt(p, pos) = <<p.name, row, col>>
  BY <1>0, <1>3, <1>4 DEF ColorAt, n, b
<1>. QED  BY <1>5 DEF pos, b

\* What draw_BMP draws of any picture is on the one screen, and of one that is
\* drawn whole it is all of it.
LEMMA PicturePoints ==
  ASSUME NEW p, OnScreen(p), NEW s \in Screens
  PROVE  /\ Somewhere(BMPPoints(p, Bias, Bias + s * Rows), s)
         /\ Drawable(p) =>
              /\ BMPPoints(p, Bias, Bias + s * Rows) \in Seq(Copy(p, s))
              /\ \A q \in Copy(p, s) : \E j \in 1 .. Len(BMPPoints(p, Bias, Bias + s * Rows)) :
                   BMPPoints(p, Bias, Bias + s * Rows)[j] = q
<1> DEFINE points == BMPPoints(p, Bias, Bias + s * Rows)
           n == p.width
           h == Height(p)
           N == IF p.bits \in {24, 32} THEN n * h ELSE 0
           C(row, col) == ColorAt(p, row * (n * Bytes(p) + width_offset(p)) + col * Bytes(p))
           P(row, col) == <<CellAt(s, Bias + RowOf(p, row), Bias + col), C(row, col)>>
<1>1. /\ n \in Nat \ {0} /\ h \in Nat /\ p.height \in Int /\ Bias \in Nat /\ s \in Nat /\ Rows \in Nat
      /\ Bias + n <= Columns /\ Bias + h <= Rows /\ Columns \in Nat
      /\ h = IF p.height < 0 THEN -p.height ELSE p.height
  BY DemosAssumption, FrambufferAssumption DEF OnScreen, Height, Screens
<1>. HIDE DEF n, h
<1>2. /\ n * h \in Nat
      /\ \A k \in 1 .. n * h : (k - 1) % n \in 0 .. n - 1 /\ (k - 1) \div n \in 0 .. h - 1
      /\ \A i \in 0 .. n - 1, j \in 0 .. h - 1 : \E k \in 1 .. n * h :
           (k - 1) % n = i /\ (k - 1) \div n = j
  BY <1>1, Places
<1>3. N \in Nat /\ N <= n * h
  BY <1>2
<1>4. ASSUME NEW row \in 0 .. h - 1
      PROVE  RowOf(p, row) \in 0 .. h - 1 /\ RowOf(p, RowOf(p, row)) = row
  BY <1>1 DEF RowOf
<1>5. points = [k \in 1 .. N |-> P((k - 1) \div n, (k - 1) % n)]
  <2>1. ASSUME NEW k \in 1 .. N
        PROVE  draw_point(Bias + ((k - 1) % n),
                          (Bias + s * Rows) + (IF p.height > 0 THEN p.height - 1 - ((k - 1) \div n)
                                               ELSE (k - 1) \div n), C((k - 1) \div n, (k - 1) % n))
               = P((k - 1) \div n, (k - 1) % n)
    <3>1. k \in 1 .. n * h
      BY <1>3, <1>2
    <3>2. PICK i \in 0 .. n - 1, j \in 0 .. h - 1 : i = (k - 1) % n /\ j = (k - 1) \div n
      BY <3>1, <1>2
    <3>3. RowOf(p, j) \in Nat /\ s * Rows \in Nat
      BY <1>4, <1>1
    <3>4. (Bias + s * Rows) + RowOf(p, j) = (Bias + RowOf(p, j)) + s * Rows
      BY <3>3, <1>1
    <3>. HIDE DEF C
    <3>. QED  BY <3>2, <3>4 DEF draw_point, CellAt, RowOf
  <2>2. points = [k \in 1 .. N |->
                    draw_point(Bias + ((k - 1) % n),
                          (Bias + s * Rows) + (IF p.height > 0 THEN p.height - 1 - ((k - 1) \div n)
                                               ELSE (k - 1) \div n), C((k - 1) \div n, (k - 1) % n))]
    BY DEF BMPPoints, n, h
  <2>. HIDE DEF N, P, C, points
  <2>. QED  BY <2>1, <2>2
<1> DEFINE v == {P(row, col) : row \in 0 .. h - 1, col \in 0 .. n - 1}
<1>. HIDE DEF points
<1>6. points \in Seq(v) /\ Len(points) = N /\ \A k \in 1 .. N : points[k] = P((k - 1) \div n, (k - 1) % n)
  <2>1. ASSUME NEW k \in 1 .. N PROVE P((k - 1) \div n, (k - 1) % n) \in v
    <3>1. k \in 1 .. n * h
      BY <1>3, <1>2
    <3>2. PICK i \in 0 .. n - 1, j \in 0 .. h - 1 : i = (k - 1) % n /\ j = (k - 1) \div n
      BY <3>1, <1>2
    <3>. HIDE DEF P
    <3>. QED  BY <3>2
  <2>. HIDE DEF v, P, N
  <2>2. points \in [1 .. N -> v]
    BY <1>5, <2>1
  <2>. QED  BY <1>3, <1>5, <2>2
<1>7. OnOne(v, s)
  <2>1. SUFFICES ASSUME NEW q \in v
                 PROVE  \E row \in 0 .. Rows - 1, col \in 0 .. Columns - 1 : q[1] = CellAt(s, row, col)
    BY DEF OnOne
  <2>2. PICK row \in 0 .. h - 1, col \in 0 .. n - 1 : q = P(row, col)
    OBVIOUS
  <2>3. Bias + RowOf(p, row) \in 0 .. Rows - 1 /\ Bias + col \in 0 .. Columns - 1
    BY <1>1, <1>4
  <2>. HIDE DEF C, v
  <2>4. q[1] = CellAt(s, Bias + RowOf(p, row), Bias + col)
    BY <2>2
  <2>. QED  BY <2>3, <2>4
<1>8. ASSUME Drawable(p)
      PROVE  points \in Seq(Copy(p, s)) /\ \A q \in Copy(p, s) : \E j \in 1 .. Len(points) : points[j] = q
  <2>1. N = n * h
    BY <1>8 DEF Drawable
  <2>2. ASSUME NEW row \in 0 .. h - 1, NEW col \in 0 .. n - 1
        PROVE  P(row, col) = <<CellAt(s, Bias + RowOf(p, row), Bias + col), <<p.name, row, col>>>>
    <3>1. C(row, col) = <<p.name, row, col>>
      BY <1>8, RowsInFile DEF n, h
    <3>. HIDE DEF C
    <3>. QED  BY <3>1
  <2>3. ASSUME NEW row \in 0 .. h - 1, NEW col \in 0 .. n - 1
        PROVE  <<CellAt(s, Bias + RowOf(p, row), Bias + col), <<p.name, row, col>>>> \in Copy(p, s)
    <3>1. PICK line \in 0 .. h - 1 : line = RowOf(p, row)
      BY <1>4
    <3>2. RowOf(p, line) = row
      BY <3>1, <1>4
    <3>3. <<CellAt(s, Bias + line, Bias + col), <<p.name, RowOf(p, line), col>>>> \in Copy(p, s)
      BY DEF Copy, n, h
    <3>. QED  BY <3>1, <3>2, <3>3
  <2>4. ASSUME NEW q \in v PROVE q \in Copy(p, s)
    <3>1. PICK row \in 0 .. h - 1, col \in 0 .. n - 1 : q = P(row, col)
      BY <2>4
    <3>. HIDE DEF P
    <3>. QED  BY <3>1, <2>2, <2>3
  <2>. HIDE DEF P, v
  <2>5. points \in Seq(Copy(p, s))
    BY <1>6, <2>4
  <2>6. ASSUME NEW q \in Copy(p, s) PROVE \E j \in 1 .. Len(points) : points[j] = q
    <3>1. PICK line \in 0 .. h - 1, col \in 0 .. n - 1 :
            q = <<CellAt(s, Bias + line, Bias + col), <<p.name, RowOf(p, line), col>>>>
      BY DEF Copy, n, h
    <3>2. PICK row \in 0 .. h - 1 : row = RowOf(p, line) /\ RowOf(p, row) = line
      BY <1>4
    <3>3. PICK k \in 1 .. n * h : (k - 1) % n = col /\ (k - 1) \div n = row
      BY <1>2
    <3>4. points[k] = P(row, col)
      BY <3>3, <2>1, <1>6
    <3>5. points[k] = q
      BY <3>1, <3>2, <3>4, <2>2
    <3>. HIDE DEF N
    <3>. QED  BY <3>5, <1>6, <2>1
  <2>. QED  BY <2>5, <2>6
<1>. HIDE DEF v
<1>9. Somewhere(points, s)
  BY <1>6, <1>7 DEF Somewhere
<1>. QED  BY <1>8, <1>9 DEF points

\* A copy has one colour in each place, all of them on its screen.
LEMMA CopyIs ==
  ASSUME NEW p, OnScreen(p), NEW s \in Screens
  PROVE  OnOne(Copy(p, s), s) /\ Picture(Copy(p, s)) /\ \A q \in Copy(p, s) : q[1] \in Cells
<1>1. ASSUME NEW row \in 0 .. Height(p) - 1, NEW col \in 0 .. p.width - 1
      PROVE  Bias + row \in 0 .. Rows - 1 /\ Bias + col \in 0 .. Columns - 1
  <2>1. Height(p) \in Int
    BY DEF OnScreen, Height
  <2>2. /\ p.width \in Nat /\ Bias \in Nat /\ Rows \in Nat /\ Columns \in Nat
        /\ Bias + p.width <= Columns /\ Bias + Height(p) <= Rows
    BY DemosAssumption, FrambufferAssumption DEF OnScreen
  <2>. QED  BY <2>1, <2>2
<1>2. ASSUME NEW row \in 0 .. Height(p) - 1, NEW col \in 0 .. p.width - 1,
             NEW line \in 0 .. Height(p) - 1, NEW place \in 0 .. p.width - 1
      PROVE  CellAt(s, Bias + row, Bias + col) \in Cells
             /\ (CellAt(s, Bias + row, Bias + col) = CellAt(s, Bias + line, Bias + place) => row = line /\ col = place)
  <2>1. PICK y \in 0 .. Rows - 1, x \in 0 .. Columns - 1, z \in 0 .. Rows - 1, t \in 0 .. Columns - 1 :
          y = Bias + row /\ x = Bias + col /\ z = Bias + line /\ t = Bias + place
    BY <1>1
  <2>2. CellAt(s, y, x) \in Cells /\ (CellAt(s, y, x) = CellAt(s, z, t) => y = z /\ x = t)
    BY CellsDiffer
  <2>3. Bias \in Nat
    BY DemosAssumption
  <2>. QED  BY <2>1, <2>2, <2>3
<1>3. OnOne(Copy(p, s), s) /\ \A q \in Copy(p, s) : q[1] \in Cells
  <2>1. SUFFICES ASSUME NEW q \in Copy(p, s)
                 PROVE  q[1] \in Cells /\ \E row \in 0 .. Rows - 1, col \in 0 .. Columns - 1 : q[1] = CellAt(s, row, col)
    BY DEF OnOne
  <2>2. PICK row \in 0 .. Height(p) - 1, col \in 0 .. p.width - 1 :
          q = <<CellAt(s, Bias + row, Bias + col), <<p.name, RowOf(p, row), col>>>>
    BY DEF Copy
  <2>. QED  BY <2>2, <1>1, <1>2
<1>4. Picture(Copy(p, s))
  <2>1. SUFFICES ASSUME NEW q \in Copy(p, s), NEW r \in Copy(p, s), q[1] = r[1] PROVE q = r
    BY DEF Picture
  <2>2. PICK row \in 0 .. Height(p) - 1, col \in 0 .. p.width - 1 :
          q = <<CellAt(s, Bias + row, Bias + col), <<p.name, RowOf(p, row), col>>>>
    BY DEF Copy
  <2>3. PICK line \in 0 .. Height(p) - 1, place \in 0 .. p.width - 1 :
          r = <<CellAt(s, Bias + line, Bias + place), <<p.name, RowOf(p, line), place>>>>
    BY DEF Copy
  <2>4. row = line /\ col = place
    BY <2>1, <2>2, <2>3, <1>2
  <2>. QED  BY <2>2, <2>3, <2>4
<1>. QED  BY <1>3, <1>4

\* Drawing a picture brings its copy.
LEMMA CopyComes ==
  ASSUME NEW p, OnScreen(p), Drawable(p), NEW s \in Screens
  PROVE  Coming(BMPPoints(p, Bias, Bias + s * Rows), Copy(p, s))
BY PicturePoints DEF Coming

-----------------------------------------------------------------------------
\* Where in the list a call is of which something is claimed, and how many
\* switches are before it

\* The call is the first,
LEMMA NoneBefore ==
  ASSUME NEW f, NEW r, Harmless(r), todo = Then(f, r)
  PROVE  \A k \in DOMAIN todo : Loose(todo[k]) \/ (k = 1 /\ todo[k] = f /\ Hidden(k) = 0)
<1>0. IsList(r) /\ \A k \in DOMAIN r : Loose(r[k])
  BY HarmlessThen
<1>1. /\ DOMAIN todo = 1 .. Len(r) + 1 /\ Len(r) \in Nat /\ todo[1] = f
      /\ \A k \in 1 .. Len(r) : todo[k + 1] = r[k]
  BY <1>0, ThenIs
<1>2. DOMAIN r = 1 .. Len(r)
  BY <1>0 DEF IsList
<1>3. SUFFICES ASSUME NEW k \in 1 .. Len(r) + 1
               PROVE  Loose(todo[k]) \/ (k = 1 /\ todo[k] = f /\ Hidden(k) = 0)
  BY <1>1
<1>4. CASE k = 1
  <2>1. {j \in 1 .. k - 1 : todo[j].op = "switch"} = {}
    BY <1>4
  <2>2. Hidden(k) = 0
    BY <2>1, FS_EmptySet DEF Hidden
  <2>. QED  BY <2>2, <1>4, <1>1
<1>5. CASE k # 1
  <2>1. k - 1 \in 1 .. Len(r) /\ (k - 1) + 1 = k
    BY <1>1, <1>5
  <2>2. todo[k] = r[k - 1]
    BY <2>1, <1>1
  <2>. QED  BY <2>1, <2>2, <1>0, <1>2
<1>. QED  BY <1>4, <1>5

\* there is one loose call before it,
LEMMA OneBefore ==
  ASSUME NEW a, Loose(a), NEW f, NEW r, Harmless(r), todo = Then(a, Then(f, r))
  PROVE  \A k \in DOMAIN todo : Loose(todo[k])
           \/ (k = 2 /\ todo[k] = f /\ Hidden(k) = IF a.op = "switch" THEN 1 ELSE 0)
<1>0. IsList(r) /\ \A k \in DOMAIN r : Loose(r[k])
  BY HarmlessThen
<1> DEFINE t == Then(f, r)
<1>1. /\ IsList(t) /\ Len(t) = Len(r) + 1 /\ Len(r) \in Nat /\ t[1] = f
      /\ \A k \in 1 .. Len(r) : t[k + 1] = r[k]
  BY <1>0, ThenIs
<1>2. DOMAIN r = 1 .. Len(r)
  BY <1>0 DEF IsList
<1>. HIDE DEF t
<1>3. /\ DOMAIN todo = 1 .. Len(t) + 1 /\ todo[1] = a
      /\ \A k \in 1 .. Len(t) : todo[k + 1] = t[k]
  BY <1>1, ThenIs DEF t
<1>4. SUFFICES ASSUME NEW k \in 1 .. Len(r) + 2
               PROVE  Loose(todo[k])
                      \/ (k = 2 /\ todo[k] = f /\ Hidden(k) = IF a.op = "switch" THEN 1 ELSE 0)
  BY <1>1, <1>3
<1>5. CASE k = 1
  BY <1>5, <1>3
<1>6. CASE k = 2
  <2>1. todo[2] = f
    <3>1. 1 \in 1 .. Len(t) /\ 1 + 1 = 2
      BY <1>1
    <3>. QED  BY <3>1, <1>1, <1>3
  <2>2. {j \in 1 .. k - 1 : todo[j].op = "switch"} = IF a.op = "switch" THEN {1} ELSE {}
    BY <1>6, <1>3
  <2>3. Hidden(k) = IF a.op = "switch" THEN 1 ELSE 0
    BY <2>2, FS_EmptySet, FS_Singleton DEF Hidden
  <2>. QED  BY <1>6, <2>1, <2>3
<1>7. CASE k # 1 /\ k # 2
  <2>1. k - 1 \in 1 .. Len(t) /\ (k - 1) + 1 = k /\ k - 2 \in 1 .. Len(r) /\ (k - 2) + 1 = k - 1
    BY <1>1, <1>7
  <2>2. todo[k] = r[k - 2]
    BY <2>1, <1>1, <1>3
  <2>. QED  BY <2>1, <2>2, <1>0, <1>2
<1>. QED  BY <1>5, <1>6, <1>7

\* there are two, the last of them a switch,
LEMMA TwoBefore ==
  ASSUME NEW a, Loose(a), a.op # "switch", NEW b, Loose(b), b.op = "switch",
         NEW f, NEW r, Harmless(r), todo = Then(a, Then(b, Then(f, r)))
  PROVE  \A k \in DOMAIN todo : Loose(todo[k]) \/ (k = 3 /\ todo[k] = f /\ Hidden(k) = 1)
<1>0. IsList(r) /\ \A k \in DOMAIN r : Loose(r[k])
  BY HarmlessThen
<1> DEFINE t == Then(f, r)
           q == Then(b, t)
<1>1. /\ IsList(t) /\ Len(t) = Len(r) + 1 /\ Len(r) \in Nat /\ t[1] = f
      /\ \A k \in 1 .. Len(r) : t[k + 1] = r[k]
  BY <1>0, ThenIs
<1>2. DOMAIN r = 1 .. Len(r)
  BY <1>0 DEF IsList
<1>. HIDE DEF t
<1>3. /\ IsList(q) /\ Len(q) = Len(t) + 1 /\ q[1] = b
      /\ \A k \in 1 .. Len(t) : q[k + 1] = t[k]
  BY <1>1, ThenIs
<1>. HIDE DEF q
<1>4. /\ DOMAIN todo = 1 .. Len(q) + 1 /\ todo[1] = a
      /\ \A k \in 1 .. Len(q) : todo[k + 1] = q[k]
  BY <1>3, ThenIs DEF t, q
<1>5. todo[2] = b /\ todo[3] = f
  <2>1. 1 \in 1 .. Len(q) /\ 2 \in 1 .. Len(q) /\ 1 \in 1 .. Len(t) /\ 1 + 1 = 2 /\ 2 + 1 = 3
    BY <1>1, <1>3
  <2>. QED  BY <2>1, <1>1, <1>3, <1>4
<1>6. SUFFICES ASSUME NEW k \in 1 .. Len(r) + 3
               PROVE  Loose(todo[k]) \/ (k = 3 /\ todo[k] = f /\ Hidden(k) = 1)
  BY <1>1, <1>3, <1>4
<1>7. CASE k = 1 \/ k = 2
  BY <1>7, <1>4, <1>5
<1>8. CASE k = 3
  <2>1. {j \in 1 .. k - 1 : todo[j].op = "switch"} = {2}
    BY <1>8, <1>4, <1>5
  <2>2. Hidden(k) = 1
    BY <2>1, FS_Singleton DEF Hidden
  <2>. QED  BY <1>8, <1>5, <2>2
<1>9. CASE k \notin {1, 2, 3}
  <2>1. /\ k - 1 \in 1 .. Len(q) /\ (k - 1) + 1 = k /\ k - 2 \in 1 .. Len(t) /\ (k - 2) + 1 = k - 1
        /\ k - 3 \in 1 .. Len(r) /\ (k - 3) + 1 = k - 2
    BY <1>1, <1>3, <1>9
  <2>2. todo[k] = r[k - 3]
    BY <2>1, <1>1, <1>3, <1>4
  <2>. QED  BY <2>1, <2>2, <1>0, <1>2
<1>. QED  BY <1>7, <1>8, <1>9

\* or three.
LEMMA ThreeBefore ==
  ASSUME NEW a, Loose(a), a.op # "switch", NEW b, Loose(b), b.op # "switch",
         NEW c, Loose(c), c.op = "switch",
         NEW f, NEW r, Harmless(r), todo = Then(a, Then(b, Then(c, Then(f, r))))
  PROVE  \A k \in DOMAIN todo : Loose(todo[k]) \/ (k = 4 /\ todo[k] = f /\ Hidden(k) = 1)
<1>0. IsList(r) /\ \A k \in DOMAIN r : Loose(r[k])
  BY HarmlessThen
<1> DEFINE t == Then(f, r)
           q == Then(c, t)
           s == Then(b, q)
<1>1. /\ IsList(t) /\ Len(t) = Len(r) + 1 /\ Len(r) \in Nat /\ t[1] = f
      /\ \A k \in 1 .. Len(r) : t[k + 1] = r[k]
  BY <1>0, ThenIs
<1>2. DOMAIN r = 1 .. Len(r)
  BY <1>0 DEF IsList
<1>. HIDE DEF t
<1>3. /\ IsList(q) /\ Len(q) = Len(t) + 1 /\ q[1] = c
      /\ \A k \in 1 .. Len(t) : q[k + 1] = t[k]
  BY <1>1, ThenIs
<1>. HIDE DEF q
<1>4. /\ IsList(s) /\ Len(s) = Len(q) + 1 /\ s[1] = b
      /\ \A k \in 1 .. Len(q) : s[k + 1] = q[k]
  BY <1>3, ThenIs
<1>. HIDE DEF s
<1>5. /\ DOMAIN todo = 1 .. Len(s) + 1 /\ todo[1] = a
      /\ \A k \in 1 .. Len(s) : todo[k + 1] = s[k]
  BY <1>4, ThenIs DEF t, q, s
<1>6. todo[2] = b /\ todo[3] = c /\ todo[4] = f
  <2>1. /\ 1 \in 1 .. Len(s) /\ 2 \in 1 .. Len(s) /\ 3 \in 1 .. Len(s) /\ 1 \in 1 .. Len(q)
        /\ 2 \in 1 .. Len(q) /\ 1 \in 1 .. Len(t) /\ 1 + 1 = 2 /\ 2 + 1 = 3 /\ 3 + 1 = 4
    BY <1>1, <1>3, <1>4
  <2>. QED  BY <2>1, <1>1, <1>3, <1>4, <1>5
<1>7. SUFFICES ASSUME NEW k \in 1 .. Len(r) + 4
               PROVE  Loose(todo[k]) \/ (k = 4 /\ todo[k] = f /\ Hidden(k) = 1)
  BY <1>1, <1>3, <1>4, <1>5
<1>8. CASE k \in {1, 2, 3}
  BY <1>8, <1>5, <1>6
<1>9. CASE k = 4
  <2>1. {j \in 1 .. k - 1 : todo[j].op = "switch"} = {3}
    BY <1>9, <1>5, <1>6
  <2>2. Hidden(k) = 1
    BY <2>1, FS_Singleton DEF Hidden
  <2>. QED  BY <1>9, <1>6, <2>2
<1>10. CASE k \notin {1, 2, 3, 4}
  <2>1. /\ k - 1 \in 1 .. Len(s) /\ (k - 1) + 1 = k /\ k - 2 \in 1 .. Len(q) /\ (k - 2) + 1 = k - 1
        /\ k - 3 \in 1 .. Len(t) /\ (k - 3) + 1 = k - 2 /\ k - 4 \in 1 .. Len(r) /\ (k - 4) + 1 = k - 3
    BY <1>1, <1>3, <1>4, <1>10
  <2>2. todo[k] = r[k - 4]
    BY <2>1, <1>1, <1>3, <1>4, <1>5
  <2>. QED  BY <2>1, <2>2, <1>0, <1>2
<1>. QED  BY <1>8, <1>9, <1>10

-----------------------------------------------------------------------------
\* draw_flash_block: the first place drawn; at the left edge, the second after
\* it; and from then on a frame at a time, the screen behind first emptied and
\* then drawn in, and switched to

FrameThen(c, i, r) == Then(Frame(c, i, 1), r)
FirstBlock(c, points, r) ==
  /\ IsBlock(c) /\ Harmless(r) /\ On(0) /\ c.block.xmin # 0
  /\ Coming(points, WithBlock(c, 0, 0)) /\ Shows(Empty(1))
  /\ todo = Then(Paint(0, points), FrameThen(c, 1, r))
LeftBlock(c, points, r) ==
  /\ IsBlock(c) /\ Harmless(r) /\ On(0) /\ c.block.xmin = 0
  /\ Coming(points, WithBlock(c, 0, 0)) /\ Shows(Empty(1))
  /\ todo = Then(Paint(0, points), Then(BlockAt(c, 1, c.color, 1),
                 Then(switch_vscreen, FrameThen(c, 2, r))))

IsAt(c, u, i, r) ==
  IsBlock(c) /\ Harmless(r) /\ On(u) /\ i \in 1 .. Steps /\ Shows(WithBlock(c, u, i - 1))
AtFrame(c, u, i, r) ==
  /\ IsAt(c, u, i, r) /\ todo = FrameThen(c, i, r)
  /\ i = 1 => c.block.xmin # 0 /\ Shows(Empty(1 - u))
  /\ i > 1 => Shows(WithBlock(c, 1 - u, i - 2))
Erasing(c, u, i, points, r) ==
  /\ IsAt(c, u, i, r) /\ i < Steps /\ Coming(points, Empty(1 - u))
  /\ todo = Then(Paint(0, points), Then(BlockAt(c, i, c.color, 1 - u),
                 Then(switch_vscreen, FrameThen(c, i + 1, r))))
Drawing(c, u, i, points, r) ==
  /\ IsAt(c, u, i, r) /\ i < Steps /\ Coming(points, WithBlock(c, 1 - u, i))
  /\ todo = Then(Paint(0, points), Then(switch_vscreen, FrameThen(c, i + 1, r)))
Switching(c, u, i, r) ==
  /\ IsAt(c, u, i, r) /\ i < Steps /\ Shows(WithBlock(c, 1 - u, i))
  /\ todo = Then(switch_vscreen, FrameThen(c, i + 1, r))

BlockPhase ==
  \/ \E c, points, r : FirstBlock(c, points, r) \/ LeftBlock(c, points, r)
  \/ \E c, u, i, r : AtFrame(c, u, i, r) \/ Switching(c, u, i, r)
  \/ \E c, u, i, points, r : Erasing(c, u, i, points, r) \/ Drawing(c, u, i, points, r)

\* Both kinds of picture are on one screen.
LEMMA ScreenIsOne ==
  ASSUME NEW c, NEW s \in Screens, NEW x
  PROVE  OnOne(WithBlock(c, s, x), s) /\ OnOne(Empty(s), s)
BY DEF OnOne, WithBlock, Empty

\* The lists of these phases are lists.
LEMMA ListsOfFrames ==
  ASSUME NEW c, NEW i, NEW r, Harmless(r), NEW u
  PROVE  /\ IsList(r) /\ IsList(FrameThen(c, i, r)) /\ IsList(Then(switch_vscreen, FrameThen(c, i, r)))
         /\ IsList(Then(BlockAt(c, i, c.color, u), Then(switch_vscreen, FrameThen(c, i, r))))
         /\ \A j : IsList(Then(BlockAt(c, j, c.color, u), Then(switch_vscreen, FrameThen(c, i, r))))
<1>1. IsList(r)
  BY HarmlessThen
<1>2. IsList(FrameThen(c, i, r))
  BY <1>1, ThenIs DEF FrameThen
<1>3. IsList(Then(switch_vscreen, FrameThen(c, i, r)))
  BY <1>2, ThenIs
<1>4. \A j : IsList(Then(BlockAt(c, j, c.color, u), Then(switch_vscreen, FrameThen(c, i, r))))
  BY <1>3, ThenIs
<1>. QED  BY <1>1, <1>2, <1>3, <1>4

\* The calls of a frame
LEMMA FrameIs ==
  ASSUME NEW c, NEW i, NEW left
  PROVE  /\ Frame(c, i, left).op = "frame" /\ Frame(c, i, left).call = c /\ Frame(c, i, left).i = i
         /\ Frame(c, i, left).left = left
BY DEF Frame

\* The loop of draw_flash_block goes on with the next i.
LEMMA FrameAfter ==
  ASSUME NEW c, NEW i, NEW left
  PROVE  [Frame(c, i, left) EXCEPT !.i = @ + 1] = Frame(c, i + 1, left)
<1>1. Frame(c, i, left) \in [op : {"frame"}, call : {c}, i : {i}, left : {left}]
  BY DEF Frame
<1>2. [Frame(c, i, left) EXCEPT !.i = @ + 1] \in [op : {"frame"}, call : {c}, i : {i + 1}, left : {left}]
  BY <1>1
<1>3. \A x \in [op : {"frame"}, call : {c}, i : {i + 1}, left : {left}] : x = Frame(c, i + 1, left)
  BY DEF Frame
<1>. QED  BY <1>2, <1>3

\* A block that runs stays on the screen.
LEMMA BlockRoom ==
  ASSUME NEW c, IsBlock(c), NEW x \in Int, x < Steps, x >= 0 \/ (x = -1 /\ c.block.xmin # 0)
  PROVE  0 <= c.block.xmin + x /\ c.block.xmax + x <= Columns
<1>1. /\ Steps \in Nat /\ Columns \in Nat /\ c.block.xmin \in Nat /\ c.block.xmax \in Nat
      /\ c.block.xmax + Steps - 1 <= Columns
  BY DemosAssumption, FrambufferAssumption DEF IsBlock, Fits
<1>. QED  BY <1>1

-----------------------------------------------------------------------------
\* the first place
LEMMA FirstBlockStep ==
  ASSUME NEW c, NEW points, NEW r, FirstBlock(c, points, r), FbNext
  PROVE  BlockPhase'
<1> DEFINE w == WithBlock(c, 0, 0)
<1>0. /\ 0 \in Screens /\ 1 \in Screens /\ 1 - 0 = 1 /\ OnOne(w, 0) /\ OnOne(Empty(1), 1) /\ Picture(w)
      /\ \A p \in w : p[1] \in Cells
  <2>1. 0 \in Screens /\ 1 \in Screens /\ 1 - 0 = 1
    BY DEF Screens
  <2>. QED  BY <2>1, ScreenIsOne, ScreenPictures
<1>1. points \in Seq(w) /\ IsList(FrameThen(c, 1, r))
  BY ListsOfFrames DEF FirstBlock, Coming
<1>. HIDE DEF w
<1>2. /\ On(0)'
      /\ \/ todo' = Then(Paint(0, Tail(points)), FrameThen(c, 1, r)) /\ Coming(Tail(points), w)'
         \/ todo' = FrameThen(c, 1, r) /\ Shows(w)'
      /\ Shows(Empty(1))'
  BY <1>0, <1>1, DrawingStep DEF FirstBlock, w
<1>3. CASE todo' = Then(Paint(0, Tail(points)), FrameThen(c, 1, r)) /\ Coming(Tail(points), w)'
  <2>1. FirstBlock(c, Tail(points), r)'
    BY <1>2, <1>3 DEF FirstBlock, w
  <2>. QED  BY <2>1 DEF BlockPhase
<1>4. CASE todo' = FrameThen(c, 1, r) /\ Shows(w)'
  <2>1. 1 \in 1 .. Steps /\ 1 - 1 = 0 /\ 1 - 0 = 1
    BY DemosAssumption
  <2>2. AtFrame(c, 0, 1, r)'
    BY <1>2, <1>4, <2>1 DEF FirstBlock, AtFrame, IsAt, w
  <2>. QED  BY <2>2 DEF BlockPhase
<1>. QED  BY <1>2, <1>3, <1>4

\* the first place at the left edge
LEMMA LeftBlockStep ==
  ASSUME NEW c, NEW points, NEW r, LeftBlock(c, points, r), FbNext
  PROVE  BlockPhase'
<1> DEFINE w == WithBlock(c, 0, 0)
           t == Then(BlockAt(c, 1, c.color, 1), Then(switch_vscreen, FrameThen(c, 2, r)))
<1>0. /\ 0 \in Screens /\ 1 \in Screens /\ 1 - 0 = 1 /\ OnOne(w, 0) /\ OnOne(Empty(1), 1) /\ Picture(w)
      /\ \A p \in w : p[1] \in Cells
  <2>1. 0 \in Screens /\ 1 \in Screens /\ 1 - 0 = 1
    BY DEF Screens
  <2>. QED  BY <2>1, ScreenIsOne, ScreenPictures
<1>1. points \in Seq(w) /\ IsList(t)
  BY ListsOfFrames DEF LeftBlock, Coming
<1>. HIDE DEF w, t
<1>2. /\ On(0)'
      /\ \/ todo' = Then(Paint(0, Tail(points)), t) /\ Coming(Tail(points), w)'
         \/ todo' = t /\ Shows(w)'
      /\ Shows(Empty(1))'
  BY <1>0, <1>1, DrawingStep DEF LeftBlock, w, t
<1>3. CASE todo' = Then(Paint(0, Tail(points)), t) /\ Coming(Tail(points), w)'
  <2>1. LeftBlock(c, Tail(points), r)'
    BY <1>2, <1>3 DEF LeftBlock, w, t
  <2>. QED  BY <2>1 DEF BlockPhase
<1>4. CASE todo' = t /\ Shows(w)'
  <2>1. 1 \in 1 .. Steps /\ 1 < Steps /\ 1 - 1 = 0 /\ 1 - 0 = 1 /\ 1 + 1 = 2
    BY DemosAssumption
  <2>2. BlockAt(c, 1, c.color, 1) = Paint(0, PointsOf(c, 1, 1, c.color))
    BY DEF BlockAt, PointsOf
  <2>3. Coming(PointsOf(c, 1, 1, c.color), WithBlock(c, 1, 1))'
    <3>1. 0 <= c.block.xmin + 1 /\ c.block.xmax + 1 <= Columns
      BY <2>1, BlockRoom DEF LeftBlock
    <3>2. IsBlock(c)
      BY DEF LeftBlock
    <3>3. ShowsIn(memory'[0], Empty(1))
      BY <1>2 DEF Shows, ShowsIn
    <3>4. BringsIn(memory'[0], PointsOf(c, 1, 1, c.color), WithBlock(c, 1, 1))
      BY <3>1, <3>2, <3>3, <1>0, DrawComes
    <3>. QED  BY <3>4 DEF BringsIn, Coming
  <2>4. Drawing(c, 0, 1, PointsOf(c, 1, 1, c.color), r)'
    BY <1>2, <1>4, <2>1, <2>2, <2>3 DEF LeftBlock, Drawing, IsAt, w, t
  <2>. QED  BY <2>4 DEF BlockPhase
<1>. QED  BY <1>2, <1>3, <1>4

\* before a frame
LEMMA AtFrameStep ==
  ASSUME NEW c, NEW u, NEW i, NEW r, AtFrame(c, u, i, r), FbNext
  PROVE  BlockPhase' \/ (Harmless(todo)' /\ IsMemory')
<1>1. /\ IsBlock(c) /\ Harmless(r) /\ On(u) /\ i \in 1 .. Steps /\ u \in Screens /\ 1 - u \in Screens
      /\ IsList(r) /\ SCREEN_USING = u /\ c.steps = Steps /\ Steps \in Nat
  BY HarmlessThen, DemosAssumption DEF AtFrame, IsAt, On, Screens, IsBlock
<1>2. Head(todo) = Frame(c, i, 1) /\ Tail(todo) = r
  BY <1>1, ThenIs DEF AtFrame, FrameThen
<1>3. FlashBlockFrame
  <2>1. Frame(c, i, 1).op = "frame"
    BY FrameIs
  <2>. QED  BY <1>2, <2>1, ActionOf
<1>4. /\ Head(todo).call = c /\ Head(todo).i = i
      /\ [Head(todo) EXCEPT !.i = @ + 1] = Frame(c, i + 1, 1)
  <2>1. Frame(c, i, 1).call = c /\ Frame(c, i, 1).i = i
    BY FrameIs
  <2>2. [Frame(c, i, 1) EXCEPT !.i = @ + 1] = Frame(c, i + 1, 1)
    BY FrameAfter
  <2>. QED  BY <1>2, <2>1, <2>2
<1>5. UNCHANGED <<memory, mapped, yoffset, SCREEN_USING>>
  BY <1>3 DEF FlashBlockFrame
<1>6. CASE i < Steps
  <2> DEFINE points == PointsOf(c, 1 - u, i - 2, Black)
  <2>1. Becomes(<<Erase(c, i), BlockAt(c, i, c.color, 1 - u), switch_vscreen, Frame(c, i + 1, 1)>>)
    BY <1>1, <1>4, <1>3, <1>6 DEF FlashBlockFrame, V_SCREEN1
  <2>2. Erase(c, i) = Paint(0, points)
    BY <1>1 DEF Erase, BlockAt, PointsOf, V_SCREEN1
  <2>. HIDE DEF points
  <2>3. todo' = Then(Paint(0, points), Then(BlockAt(c, i, c.color, 1 - u),
                     Then(switch_vscreen, FrameThen(c, i + 1, r))))
    <3>1. todo' = <<Paint(0, points), BlockAt(c, i, c.color, 1 - u), switch_vscreen, Frame(c, i + 1, 1)>> \o r
      BY <2>1, <2>2, <1>2 DEF Becomes
    <3>. QED  BY <3>1, <1>1, FourByOne DEF FrameThen
  <2>4. Coming(points, Empty(1 - u))
    <3>1. i - 2 \in Int /\ i - 2 < Steps /\ (i - 2 >= 0 \/ i - 2 = -1) /\ (i = 1 \/ i > 1)
      BY <1>1
    <3>2. i = 1 => c.block.xmin # 0
      BY DEF AtFrame
    <3>3. 0 <= c.block.xmin + (i - 2) /\ c.block.xmax + (i - 2) <= Columns
      BY <1>1, <3>1, <3>2, BlockRoom
    <3>4. ShowsIn(memory[0], WithBlock(c, 1 - u, i - 2)) \/ ShowsIn(memory[0], Empty(1 - u))
      BY <3>1 DEF AtFrame, Shows, ShowsIn
    <3>5. BringsIn(memory[0], points, Empty(1 - u))
      BY <1>1, <3>1, <3>3, <3>4, EraseComes DEF points
    <3>. QED  BY <3>5 DEF BringsIn, Coming
  <2>5. Erasing(c, u, i, points, r)'
    <3>1. On(u)'
      BY <1>1, <1>5, OnKept
    <3>2. Shows(WithBlock(c, u, i - 1))' /\ Coming(points, Empty(1 - u))'
      BY <1>5, <2>4 DEF AtFrame, IsAt, Shows, Coming
    <3>. QED  BY <1>1, <1>6, <2>3, <3>1, <3>2 DEF Erasing, IsAt
  <2>. QED  BY <2>5 DEF BlockPhase
<1>7. CASE ~(i < Steps)
  <2>1. todo' = <<>> \o r
    BY <1>1, <1>2, <1>4, <1>3, <1>7 DEF FlashBlockFrame, Becomes
  <2>2. todo' = r
    BY <2>1, <1>1, OneByOne
  <2>. QED  BY <2>2, <1>1, <1>5 DEF IsMemory, On
<1>. QED  BY <1>6, <1>7

\* while the screen behind is emptied
LEMMA ErasingStep ==
  ASSUME NEW c, NEW u, NEW i, NEW points, NEW r, Erasing(c, u, i, points, r), FbNext
  PROVE  BlockPhase'
<1> DEFINE w == Empty(1 - u)
           now == WithBlock(c, u, i - 1)
           t == Then(BlockAt(c, i, c.color, 1 - u), Then(switch_vscreen, FrameThen(c, i + 1, r)))
<1>0. /\ IsBlock(c) /\ Harmless(r) /\ On(u) /\ i \in 1 .. Steps /\ i < Steps /\ Steps \in Nat
      /\ u \in Screens /\ 1 - u \in Screens /\ 1 - (1 - u) = u
  BY DemosAssumption DEF Erasing, IsAt, On, Screens
<1>1. OnOne(w, 1 - u) /\ OnOne(now, u) /\ Picture(w) /\ \A p \in w : p[1] \in Cells
  BY <1>0, ScreenIsOne, ScreenPictures
<1>2. points \in Seq(w) /\ IsList(t)
  BY <1>0, ListsOfFrames DEF Erasing, Coming
<1>. HIDE DEF w, now, t
<1>3. /\ On(u)'
      /\ \/ todo' = Then(Paint(0, Tail(points)), t) /\ Coming(Tail(points), w)'
         \/ todo' = t /\ Shows(w)'
      /\ Shows(now)'
  BY <1>0, <1>1, <1>2, DrawingStep DEF Erasing, IsAt, w, t, now
<1>4. CASE todo' = Then(Paint(0, Tail(points)), t) /\ Coming(Tail(points), w)'
  <2>1. Erasing(c, u, i, Tail(points), r)'
    BY <1>0, <1>3, <1>4 DEF Erasing, IsAt, w, t, now
  <2>. QED  BY <2>1 DEF BlockPhase
<1>5. CASE todo' = t /\ Shows(w)'
  <2>1. i \in Int /\ 0 <= c.block.xmin + i /\ c.block.xmax + i <= Columns
    BY <1>0, BlockRoom
  <2>2. BlockAt(c, i, c.color, 1 - u) = Paint(0, PointsOf(c, 1 - u, i, c.color))
    BY DEF BlockAt, PointsOf
  <2>3. ShowsIn(memory'[0], Empty(1 - u))
    BY <1>5 DEF Shows, ShowsIn, w
  <2>4. BringsIn(memory'[0], PointsOf(c, 1 - u, i, c.color), WithBlock(c, 1 - u, i))
    BY <1>0, <2>1, <2>3, DrawComes
  <2>5. Coming(PointsOf(c, 1 - u, i, c.color), WithBlock(c, 1 - u, i))'
    BY <2>4 DEF BringsIn, Coming
  <2>6. Drawing(c, u, i, PointsOf(c, 1 - u, i, c.color), r)'
    BY <1>0, <1>3, <1>5, <2>2, <2>5 DEF Drawing, IsAt, t, now
  <2>. QED  BY <2>6 DEF BlockPhase
<1>. QED  BY <1>3, <1>4, <1>5

\* while the next frame is drawn there
LEMMA DrawingFrameStep ==
  ASSUME NEW c, NEW u, NEW i, NEW points, NEW r, Drawing(c, u, i, points, r), FbNext
  PROVE  BlockPhase'
<1> DEFINE w == WithBlock(c, 1 - u, i)
           now == WithBlock(c, u, i - 1)
           t == Then(switch_vscreen, FrameThen(c, i + 1, r))
<1>0. /\ IsBlock(c) /\ Harmless(r) /\ On(u) /\ i \in 1 .. Steps /\ i < Steps
      /\ u \in Screens /\ 1 - u \in Screens /\ 1 - (1 - u) = u
  BY DEF Drawing, IsAt, On, Screens
<1>1. OnOne(w, 1 - u) /\ OnOne(now, u) /\ Picture(w) /\ \A p \in w : p[1] \in Cells
  BY <1>0, ScreenIsOne, ScreenPictures
<1>2. points \in Seq(w) /\ IsList(t)
  BY <1>0, ListsOfFrames DEF Drawing, Coming
<1>. HIDE DEF w, now, t
<1>3. /\ On(u)'
      /\ \/ todo' = Then(Paint(0, Tail(points)), t) /\ Coming(Tail(points), w)'
         \/ todo' = t /\ Shows(w)'
      /\ Shows(now)'
  BY <1>0, <1>1, <1>2, DrawingStep DEF Drawing, IsAt, w, t, now
<1>4. CASE todo' = Then(Paint(0, Tail(points)), t) /\ Coming(Tail(points), w)'
  <2>1. Drawing(c, u, i, Tail(points), r)'
    BY <1>0, <1>3, <1>4 DEF Drawing, IsAt, w, t, now
  <2>. QED  BY <2>1 DEF BlockPhase
<1>5. CASE todo' = t /\ Shows(w)'
  <2>1. Switching(c, u, i, r)'
    BY <1>0, <1>3, <1>5 DEF Switching, IsAt, w, t, now
  <2>. QED  BY <2>1 DEF BlockPhase
<1>. QED  BY <1>3, <1>4, <1>5

\* and when it is switched to
LEMMA SwitchingStep ==
  ASSUME NEW c, NEW u, NEW i, NEW r, Switching(c, u, i, r), FbNext
  PROVE  BlockPhase'
<1>0. /\ IsBlock(c) /\ Harmless(r) /\ On(u) /\ i \in 1 .. Steps /\ i < Steps /\ Steps \in Nat
      /\ u \in Screens /\ 1 - u \in Screens /\ 1 - (1 - u) = u
      /\ Shows(WithBlock(c, u, i - 1)) /\ Shows(WithBlock(c, 1 - u, i))
  BY DemosAssumption DEF Switching, IsAt, On, Screens
<1>1. IsList(FrameThen(c, i + 1, r))
  BY <1>0, ListsOfFrames
<1>2. On(1 - u)' /\ todo' = FrameThen(c, i + 1, r) /\ UNCHANGED memory
  BY <1>0, <1>1, SwitchStep DEF Switching
<1>3. i + 1 \in 1 .. Steps /\ (i + 1) - 1 = i /\ (i + 1) - 2 = i - 1 /\ i + 1 # 1
  BY <1>0
<1>4. Shows(WithBlock(c, u, i - 1))' /\ Shows(WithBlock(c, 1 - u, i))'
  BY <1>0, <1>2 DEF Shows
<1>5. AtFrame(c, 1 - u, i + 1, r)'
  BY <1>0, <1>2, <1>3, <1>4 DEF AtFrame, IsAt
<1>. QED  BY <1>5 DEF BlockPhase

\* draw_flash_block goes from phase to phase until it returns.
LEMMA BlockPhaseStep ==
  ASSUME BlockPhase, FbNext
  PROVE  BlockPhase' \/ (Harmless(todo)' /\ IsMemory')
BY FirstBlockStep, LeftBlockStep, AtFrameStep, ErasingStep, DrawingFrameStep, SwitchingStep DEF BlockPhase

-----------------------------------------------------------------------------
\* What the panel shows, screen u of fb0
LEMMA ShownIs ==
  ASSUME NEW u, On(u), NEW c, NEW x, Shows(WithBlock(c, u, x)),
         NEW row \in 0 .. Rows - 1, NEW col \in 0 .. Columns - 1
  PROVE  Shown(row, col) = IF InBlock(c, x, row, col) THEN c.color ELSE Black
<1>1. <<CellAt(u, row, col), IF InBlock(c, x, row, col) THEN c.color ELSE Black>> \in WithBlock(c, u, x)
  BY DEF WithBlock
<1>2. (yoffset + row) * Columns + col = CellAt(u, row, col)
  <2>1. Rows \in Nat /\ u \in Nat /\ yoffset = u * Rows
    BY FrambufferAssumption DEF On, Screens
  <2>2. yoffset + row = row + u * Rows
    BY <2>1
  <2>. QED  BY <2>2 DEF CellAt
<1>. QED  BY <1>1, <1>2 DEF Shown, Shows

\* The claim for the frame at k of the list
Whole(k) ==
  /\ Waits(k, "frame", IF todo[k].call.block.xmin = 0 THEN 2 ELSE 1)
  /\ todo[k].left = 1
  => LET f == todo[k]
         x == f.i - 1 - Hidden(k)
     IN \A row \in 0 .. Rows - 1, col \in 0 .. Columns - 1 :
          Shown(row, col) =
            IF /\ row > f.call.block.ymin /\ row <= f.call.block.ymax
               /\ col >= f.call.block.xmin + x /\ col < f.call.block.xmax + x
            THEN f.call.color ELSE Black

\* The frame last switched to is whole.
LEMMA FrameIsWhole ==
  ASSUME NEW c, NEW u, NEW i, NEW r, IsAt(c, u, i, r), NEW k, NEW j \in Int,
         todo[k] = Frame(c, j, 1), Hidden(k) \in Int, j - 1 - Hidden(k) = i - 1
  PROVE  Whole(k) /\ todo[k].op = "frame"
<1>1. todo[k].call = c /\ todo[k].i = j /\ todo[k].op = "frame"
  <2>1. Frame(c, j, 1).call = c /\ Frame(c, j, 1).i = j /\ Frame(c, j, 1).op = "frame"
    BY FrameIs
  <2>. QED  BY <2>1
<1>2. \A row \in 0 .. Rows - 1, col \in 0 .. Columns - 1 :
         Shown(row, col) = IF InBlock(c, i - 1, row, col) THEN c.color ELSE Black
  BY ShownIs DEF IsAt
<1>. QED  BY <1>1, <1>2 DEF Whole, InBlock

\* In every phase the panel shows what is claimed.
LEMMA BlockPhaseIsWhole ==
  ASSUME BlockPhase
  PROVE  \A k \in DOMAIN todo : Loose(todo[k]) \/ (todo[k].op = "frame" /\ Whole(k))
<1> DEFINE Claim(k) == Loose(todo[k]) \/ (todo[k].op = "frame" /\ Whole(k))
<1>1. SUFFICES ASSUME NEW k \in DOMAIN todo PROVE Claim(k)
  OBVIOUS
<1>2. \A points : Loose(Paint(0, points)) /\ Paint(0, points).op # "switch"
  BY DEF Loose, Paint
<1>3. Loose(switch_vscreen) /\ switch_vscreen.op = "switch"
  BY DEF Loose, switch_vscreen
<1>4. \A c, j, color, s : Loose(BlockAt(c, j, color, s)) /\ BlockAt(c, j, color, s).op # "switch"
  BY <1>2 DEF BlockAt
<1>5. ASSUME NEW c, NEW points, NEW r, FirstBlock(c, points, r) PROVE Claim(k)
  <2>1. Loose(todo[k]) \/ (k = 2 /\ todo[k] = Frame(c, 1, 1))
    BY <1>2, <1>5, OneBefore DEF FirstBlock, FrameThen
  <2>2. Frame(c, 1, 1).call = c /\ Frame(c, 1, 1).i = 1 /\ Frame(c, 1, 1).op = "frame"
    BY FrameIs
  <2>3. k = 2 /\ todo[k] = Frame(c, 1, 1) => Claim(k)
    BY <1>5, <2>2 DEF Whole, Waits, FirstBlock
  <2>. QED  BY <2>1, <2>3
<1>6. ASSUME NEW c, NEW points, NEW r, LeftBlock(c, points, r) PROVE Claim(k)
  <2>1. Loose(todo[k]) \/ (k = 4 /\ todo[k] = Frame(c, 2, 1))
    BY <1>2, <1>3, <1>4, <1>6, ThreeBefore DEF LeftBlock, FrameThen
  <2>2. Frame(c, 2, 1).call = c /\ Frame(c, 2, 1).i = 2 /\ Frame(c, 2, 1).op = "frame"
    BY FrameIs
  <2>3. k = 4 /\ todo[k] = Frame(c, 2, 1) => Claim(k)
    BY <1>6, <2>2 DEF Whole, Waits, LeftBlock
  <2>. QED  BY <2>1, <2>3
<1>7. ASSUME NEW c, NEW u, NEW i, NEW r, AtFrame(c, u, i, r) PROVE Claim(k)
  <2>1. Loose(todo[k]) \/ (todo[k] = Frame(c, i, 1) /\ Hidden(k) = 0)
    BY <1>7, NoneBefore DEF AtFrame, IsAt, FrameThen
  <2>2. i \in Int /\ i - 1 - 0 = i - 1 /\ IsAt(c, u, i, r)
    BY <1>7 DEF AtFrame, IsAt
  <2>3. todo[k] = Frame(c, i, 1) /\ Hidden(k) = 0 => Claim(k)
    BY <2>2, FrameIsWhole
  <2>. QED  BY <2>1, <2>3
<1>8. ASSUME NEW c, NEW u, NEW i, NEW r, IsAt(c, u, i, r),
             Loose(todo[k]) \/ (todo[k] = Frame(c, i + 1, 1) /\ Hidden(k) = 1)
      PROVE  Claim(k)
  <2>1. i + 1 \in Int /\ (i + 1) - 1 - 1 = i - 1
    BY <1>8 DEF IsAt
  <2>2. todo[k] = Frame(c, i + 1, 1) /\ Hidden(k) = 1 => Claim(k)
    BY <1>8, <2>1, FrameIsWhole
  <2>. QED  BY <1>8, <2>2
<1>9. ASSUME NEW c, NEW u, NEW i, NEW points, NEW r, Erasing(c, u, i, points, r) PROVE Claim(k)
  <2>1. Loose(todo[k]) \/ (todo[k] = Frame(c, i + 1, 1) /\ Hidden(k) = 1)
    BY <1>2, <1>3, <1>4, <1>9, ThreeBefore DEF Erasing, IsAt, FrameThen
  <2>. QED  BY <2>1, <1>8, <1>9 DEF Erasing
<1>10. ASSUME NEW c, NEW u, NEW i, NEW points, NEW r, Drawing(c, u, i, points, r) PROVE Claim(k)
  <2>1. Loose(todo[k]) \/ (todo[k] = Frame(c, i + 1, 1) /\ Hidden(k) = 1)
    BY <1>2, <1>3, <1>10, TwoBefore DEF Drawing, IsAt, FrameThen
  <2>. QED  BY <2>1, <1>8, <1>10 DEF Drawing
<1>11. ASSUME NEW c, NEW u, NEW i, NEW r, Switching(c, u, i, r) PROVE Claim(k)
  <2>1. Loose(todo[k]) \/ (todo[k] = Frame(c, i + 1, 1) /\ Hidden(k) = 1)
    BY <1>3, <1>11, OneBefore DEF Switching, IsAt, FrameThen
  <2>. QED  BY <2>1, <1>8, <1>11 DEF Switching
<1>. QED  BY <1>5, <1>6, <1>7, <1>9, <1>10, <1>11 DEF BlockPhase

-----------------------------------------------------------------------------
\* draw_flash_BMP: the first picture drawn where it is seen, and from then on
\* each on the screen behind and switched to

Flash == draw_flash_BMP(Pictures, Bias, Bias)
DrawCall(j, s) == draw_BMP(Pictures[j], Bias, Bias + s * Rows)
TurnThen(i, r) == Then(Turn(Flash, i), r)
HasPicture(u, i, r) ==
  /\ On(u) /\ Harmless(r) /\ i \in 1 .. Len(Pictures)
  /\ Drawable(Pictures[i]) => Shows(Copy(Pictures[i], u))

FirstPicture(r) == On(0) /\ Harmless(r) /\ todo = Then(DrawCall(1, 0), TurnThen(1, r))
FirstPainting(points, r) ==
  /\ On(0) /\ Harmless(r) /\ Somewhere(points, 0)
  /\ Drawable(Pictures[1]) => Coming(points, Copy(Pictures[1], 0))
  /\ todo = Then(Paint(0, points), TurnThen(1, r))
AtTurn(u, i, r) == HasPicture(u, i, r) /\ todo = TurnThen(i, r)
NextPicture(u, i, r) ==
  /\ HasPicture(u, i, r) /\ i < Len(Pictures)
  /\ todo = Then(DrawCall(i + 1, 1 - u), Then(switch_vscreen, TurnThen(i + 1, r)))
NextPainting(u, i, points, r) ==
  /\ HasPicture(u, i, r) /\ i < Len(Pictures) /\ Somewhere(points, 1 - u)
  /\ Drawable(Pictures[i + 1]) => Coming(points, Copy(Pictures[i + 1], 1 - u))
  /\ todo = Then(Paint(0, points), Then(switch_vscreen, TurnThen(i + 1, r)))
NextSwitch(u, i, r) ==
  /\ HasPicture(u, i, r) /\ i < Len(Pictures)
  /\ Drawable(Pictures[i + 1]) => Shows(Copy(Pictures[i + 1], 1 - u))
  /\ todo = Then(switch_vscreen, TurnThen(i + 1, r))

PicturePhase ==
  \/ \E r : FirstPicture(r)
  \/ \E points, r : FirstPainting(points, r)
  \/ \E u, i, r : AtTurn(u, i, r) \/ NextPicture(u, i, r) \/ NextSwitch(u, i, r)
  \/ \E u, i, points, r : NextPainting(u, i, points, r)

\* The lists of these phases are lists.
LEMMA ListsOfTurns ==
  ASSUME NEW i, NEW r, Harmless(r)
  PROVE  IsList(r) /\ IsList(TurnThen(i, r)) /\ IsList(Then(switch_vscreen, TurnThen(i, r)))
<1>1. IsList(r)
  BY HarmlessThen
<1>2. IsList(TurnThen(i, r))
  BY <1>1, ThenIs DEF TurnThen
<1>. QED  BY <1>1, <1>2, ThenIs

\* The calls of a turn
LEMMA TurnIs ==
  ASSUME NEW i
  PROVE  Turn(Flash, i).op = "turn" /\ Turn(Flash, i).call = Flash /\ Turn(Flash, i).i = i
BY DEF Turn

\* The loop of draw_flash_BMP goes on with the next i.
LEMMA TurnAfter ==
  ASSUME NEW i
  PROVE  [Turn(Flash, i) EXCEPT !.i = @ + 1] = Turn(Flash, i + 1)
<1> DEFINE c == Flash
<1>. HIDE DEF c
<1>1. Turn(c, i) \in [op : {"turn"}, call : {c}, i : {i}]
  BY DEF Turn
<1>2. [Turn(c, i) EXCEPT !.i = @ + 1] \in [op : {"turn"}, call : {c}, i : {i + 1}]
  BY <1>1
<1>3. \A x \in [op : {"turn"}, call : {c}, i : {i + 1}] : x = Turn(c, i + 1)
  BY DEF Turn
<1>4. [Turn(c, i) EXCEPT !.i = @ + 1] = Turn(c, i + 1)
  BY <1>2, <1>3
<1>. QED  BY <1>4 DEF c

\* The calls that it makes
LEMMA FlashIs ==
  /\ Flash.op = "flash_BMP" /\ Flash.pictures = Pictures /\ Flash.xbias = Bias /\ Flash.ybias = Bias
  /\ \A j, s : PictureOf(Flash, j, s) = DrawCall(j + 1, s)
  /\ \A j, s : /\ DrawCall(j, s).op = "BMP" /\ DrawCall(j, s).picture = Pictures[j]
               /\ DrawCall(j, s).xbias = Bias /\ DrawCall(j, s).ybias = Bias + s * Rows
               /\ Loose(DrawCall(j, s)) /\ DrawCall(j, s).op # "switch"
<1>1. /\ Flash.op = "flash_BMP" /\ Flash.pictures = Pictures /\ Flash.xbias = Bias /\ Flash.ybias = Bias
  BY DEF Flash, draw_flash_BMP
<1>2. \A j, s : PictureOf(Flash, j, s) = DrawCall(j + 1, s)
  BY <1>1 DEF PictureOf, draw_vBMP, DrawCall
<1>3. \A j, s : /\ DrawCall(j, s).op = "BMP" /\ DrawCall(j, s).picture = Pictures[j]
                /\ DrawCall(j, s).xbias = Bias /\ DrawCall(j, s).ybias = Bias + s * Rows
                /\ Loose(DrawCall(j, s)) /\ DrawCall(j, s).op # "switch"
  BY DEF DrawCall, draw_BMP, Loose
<1>. QED  BY <1>1, <1>2, <1>3

\* draw_BMP opens the file of picture j, or cannot.
LEMMA PictureStep ==
  ASSUME NEW j \in 1 .. Len(Pictures), NEW s \in Screens, NEW t, IsList(t), todo = Then(DrawCall(j, s), t), FbNext
  PROVE  /\ UNCHANGED <<memory, mapped, yoffset, SCREEN_USING>>
         /\ \/ \E points : /\ Somewhere(points, s) /\ todo' = Then(Paint(0, points), t)
                           /\ Drawable(Pictures[j]) => Coming(points, Copy(Pictures[j], s))
            \/ ~Drawable(Pictures[j]) /\ todo' = t
<1> DEFINE p == Pictures[j]
           points == BMPPoints(p, Bias, Bias + s * Rows)
<1>1. OnScreen(p)
  BY DemosAssumption
<1>2. Head(todo) = DrawCall(j, s) /\ Tail(todo) = t
  BY ThenIs
<1>3. /\ DrawCall(j, s).op = "BMP" /\ DrawCall(j, s).picture = p
      /\ DrawCall(j, s).xbias = Bias /\ DrawCall(j, s).ybias = Bias + s * Rows
  BY FlashIs
<1>4. DrawBMP
  BY <1>2, <1>3, ActionOf
<1>. HIDE DEF p
<1>5. UNCHANGED <<memory, mapped, yoffset, SCREEN_USING>>
  BY <1>4 DEF DrawBMP
<1>6. CASE p.file = "whole"
  <2>1. Becomes(<<Paint(0, points)>>)
    BY <1>2, <1>3, <1>4, <1>6 DEF DrawBMP
  <2>2. Somewhere(points, s) /\ (Drawable(p) => Coming(points, Copy(p, s)))
    BY <1>1, PicturePoints, CopyComes
  <2>. HIDE DEF points
  <2>3. todo' = Then(Paint(0, points), t)
    BY <2>1, <1>2, OneByOne DEF Becomes
  <2>. QED  BY <1>5, <2>2, <2>3 DEF p
<1>7. CASE p.file # "whole"
  <2>1. Becomes(<<>>)
    BY <1>2, <1>3, <1>4, <1>7 DEF DrawBMP
  <2>2. todo' = t
    BY <2>1, <1>2, OneByOne DEF Becomes
  <2>. QED  BY <2>2, <1>5, <1>7 DEF Drawable, p
<1>. QED  BY <1>6, <1>7

\* A step while it is drawn
LEMMA PicturePaintStep ==
  ASSUME NEW u, On(u), NEW s \in Screens, NEW j \in 1 .. Len(Pictures), NEW points, Somewhere(points, s),
         Drawable(Pictures[j]) => Coming(points, Copy(Pictures[j], s)),
         NEW t, IsList(t), todo = Then(Paint(0, points), t), FbNext
  PROVE  /\ On(u)'
         /\ \/ \E rest : /\ Somewhere(rest, s) /\ todo' = Then(Paint(0, rest), t)
                         /\ Drawable(Pictures[j]) => Coming(rest, Copy(Pictures[j], s))'
            \/ todo' = t /\ (Drawable(Pictures[j]) => Shows(Copy(Pictures[j], s))')
         /\ \A i \in 1 .. Len(Pictures) :
              Shows(Copy(Pictures[i], 1 - s)) => Shows(Copy(Pictures[i], 1 - s))'
<1>1. PICK v : points \in Seq(v) /\ OnOne(v, s)
  BY DEF Somewhere
<1>2. \A i \in 1 .. Len(Pictures) : OnScreen(Pictures[i])
  BY DemosAssumption
<1>3. /\ On(u)'
      /\ \/ /\ todo' = Then(Paint(0, Tail(points)), t) /\ Tail(points) \in Seq(v)
            /\ \A w : /\ Coming(points, w) /\ Picture(w) /\ \A p \in w : p[1] \in Cells
                      => Coming(Tail(points), w)'
         \/ todo' = t /\ \A w : Coming(points, w) => Shows(w)'
      /\ \A w : Shows(w) /\ OnOne(w, 1 - s) => Shows(w)'
  BY <1>1, DrawingStep
<1>4. \A i \in 1 .. Len(Pictures) :
        Shows(Copy(Pictures[i], 1 - s)) => Shows(Copy(Pictures[i], 1 - s))'
  <2>1. 1 - s \in Screens
    BY DEF Screens
  <2>. QED  BY <1>2, <1>3, <2>1, CopyIs
<1>5. Picture(Copy(Pictures[j], s)) /\ \A q \in Copy(Pictures[j], s) : q[1] \in Cells
  BY <1>2, CopyIs
<1>6. CASE /\ todo' = Then(Paint(0, Tail(points)), t) /\ Tail(points) \in Seq(v)
           /\ \A w : /\ Coming(points, w) /\ Picture(w) /\ \A p \in w : p[1] \in Cells
                     => Coming(Tail(points), w)'
  BY <1>1, <1>3, <1>4, <1>5, <1>6 DEF Somewhere
<1>7. CASE todo' = t /\ \A w : Coming(points, w) => Shows(w)'
  BY <1>3, <1>4, <1>7
<1>. QED  BY <1>3, <1>6, <1>7

-----------------------------------------------------------------------------
\* the first picture
LEMMA FirstPictureStep ==
  ASSUME NEW r, FirstPicture(r), FbNext
  PROVE  PicturePhase'
<1>1. IsList(TurnThen(1, r)) /\ 1 \in 1 .. Len(Pictures) /\ 0 \in Screens
  BY ListsOfTurns, DemosAssumption DEF FirstPicture, Screens
<1>2. /\ UNCHANGED <<memory, mapped, yoffset, SCREEN_USING>>
      /\ \/ \E points : /\ Somewhere(points, 0) /\ todo' = Then(Paint(0, points), TurnThen(1, r))
                        /\ Drawable(Pictures[1]) => Coming(points, Copy(Pictures[1], 0))
         \/ ~Drawable(Pictures[1]) /\ todo' = TurnThen(1, r)
  BY <1>1, PictureStep DEF FirstPicture
<1>3. On(0)' /\ Harmless(r)
  BY <1>2, OnKept DEF FirstPicture
<1>4. ASSUME NEW points, Somewhere(points, 0), todo' = Then(Paint(0, points), TurnThen(1, r)),
             Drawable(Pictures[1]) => Coming(points, Copy(Pictures[1], 0))
      PROVE  PicturePhase'
  <2>1. Drawable(Pictures[1]) => Coming(points, Copy(Pictures[1], 0))'
    BY <1>2, <1>4 DEF Coming
  <2>2. FirstPainting(points, r)'
    BY <1>3, <1>4, <2>1 DEF FirstPainting
  <2>. QED  BY <2>2 DEF PicturePhase
<1>5. CASE ~Drawable(Pictures[1]) /\ todo' = TurnThen(1, r)
  <2>1. AtTurn(0, 1, r)'
    BY <1>1, <1>3, <1>5 DEF AtTurn, HasPicture
  <2>. QED  BY <2>1 DEF PicturePhase
<1>. QED  BY <1>2, <1>4, <1>5

\* and while it is drawn
LEMMA FirstPaintingStep ==
  ASSUME NEW points, NEW r, FirstPainting(points, r), FbNext
  PROVE  PicturePhase'
<1>1. IsList(TurnThen(1, r)) /\ 1 \in 1 .. Len(Pictures) /\ 0 \in Screens
  BY ListsOfTurns, DemosAssumption DEF FirstPainting, Screens
<1>2. /\ On(0)'
      /\ \/ \E rest : /\ Somewhere(rest, 0) /\ todo' = Then(Paint(0, rest), TurnThen(1, r))
                      /\ Drawable(Pictures[1]) => Coming(rest, Copy(Pictures[1], 0))'
         \/ todo' = TurnThen(1, r) /\ (Drawable(Pictures[1]) => Shows(Copy(Pictures[1], 0))')
  BY <1>1, PicturePaintStep DEF FirstPainting
<1>3. ASSUME NEW rest, Somewhere(rest, 0), todo' = Then(Paint(0, rest), TurnThen(1, r)),
             Drawable(Pictures[1]) => Coming(rest, Copy(Pictures[1], 0))'
      PROVE  PicturePhase'
  <2>1. FirstPainting(rest, r)'
    BY <1>2, <1>3 DEF FirstPainting
  <2>. QED  BY <2>1 DEF PicturePhase
<1>4. CASE todo' = TurnThen(1, r) /\ (Drawable(Pictures[1]) => Shows(Copy(Pictures[1], 0))')
  <2>1. AtTurn(0, 1, r)'
    BY <1>1, <1>2, <1>4 DEF AtTurn, HasPicture, FirstPainting
  <2>. QED  BY <2>1 DEF PicturePhase
<1>. QED  BY <1>2, <1>3, <1>4

\* between pictures
LEMMA AtTurnStep ==
  ASSUME NEW u, NEW i, NEW r, AtTurn(u, i, r), FbNext
  PROVE  PicturePhase' \/ (Harmless(todo)' /\ IsMemory')
<1>1. /\ Harmless(r) /\ On(u) /\ i \in 1 .. Len(Pictures) /\ u \in Screens /\ 1 - u \in Screens
      /\ IsList(r) /\ SCREEN_USING = u /\ Len(Pictures) \in Nat
  BY HarmlessThen, DemosAssumption DEF AtTurn, HasPicture, On, Screens
<1>2. Head(todo) = Turn(Flash, i) /\ Tail(todo) = r
  BY <1>1, ThenIs DEF AtTurn, TurnThen
<1>3. FlashBMPFrame
  <2>1. Turn(Flash, i).op = "turn"
    BY TurnIs
  <2>. QED  BY <1>2, <2>1, ActionOf
<1>4. /\ Head(todo).call = Flash /\ Head(todo).i = i /\ Flash.pictures = Pictures
      /\ [Head(todo) EXCEPT !.i = @ + 1] = Turn(Flash, i + 1)
      /\ PictureOf(Flash, i, 1 - u) = DrawCall(i + 1, 1 - u)
  <2>1. Turn(Flash, i).call = Flash /\ Turn(Flash, i).i = i
    BY TurnIs
  <2>2. [Turn(Flash, i) EXCEPT !.i = @ + 1] = Turn(Flash, i + 1)
    BY TurnAfter
  <2>. QED  BY <1>2, <2>1, <2>2, FlashIs
<1>5. UNCHANGED <<memory, mapped, yoffset, SCREEN_USING>>
  BY <1>3 DEF FlashBMPFrame
<1>6. CASE i < Len(Pictures)
  <2>1. Becomes(<<DrawCall(i + 1, 1 - u), switch_vscreen, Turn(Flash, i + 1)>>)
    BY <1>1, <1>3, <1>4, <1>6 DEF FlashBMPFrame, V_SCREEN1
  <2>2. todo' = Then(DrawCall(i + 1, 1 - u), Then(switch_vscreen, TurnThen(i + 1, r)))
    <3>1. todo' = <<DrawCall(i + 1, 1 - u), switch_vscreen, Turn(Flash, i + 1)>> \o r
      BY <2>1, <1>2 DEF Becomes
    <3>. QED  BY <3>1, <1>1, ThreeByOne DEF TurnThen
  <2>3. On(u)' /\ (Drawable(Pictures[i]) => Shows(Copy(Pictures[i], u))')
    <3>1. On(u)'
      BY <1>1, <1>5, OnKept
    <3>. QED  BY <1>5, <3>1 DEF AtTurn, HasPicture, Shows
  <2>4. NextPicture(u, i, r)'
    BY <1>1, <1>6, <2>2, <2>3 DEF NextPicture, HasPicture
  <2>. QED  BY <2>4 DEF PicturePhase
<1>7. CASE ~(i < Len(Pictures))
  <2>1. todo' = <<>> \o r
    BY <1>2, <1>3, <1>4, <1>7 DEF FlashBMPFrame, Becomes
  <2>2. todo' = r
    BY <2>1, <1>1, OneByOne
  <2>. QED  BY <2>2, <1>1, <1>5 DEF IsMemory, On
<1>. QED  BY <1>6, <1>7

\* the next picture
LEMMA NextPictureStep ==
  ASSUME NEW u, NEW i, NEW r, NextPicture(u, i, r), FbNext
  PROVE  PicturePhase'
<1> DEFINE t == Then(switch_vscreen, TurnThen(i + 1, r))
           p == Pictures[i + 1]
<1>1. /\ Harmless(r) /\ On(u) /\ i \in 1 .. Len(Pictures) /\ i < Len(Pictures)
      /\ i + 1 \in 1 .. Len(Pictures) /\ u \in Screens /\ 1 - u \in Screens /\ IsList(t)
  BY ListsOfTurns, DemosAssumption DEF NextPicture, HasPicture, On, Screens
<1>. HIDE DEF t, p
<1>2. /\ UNCHANGED <<memory, mapped, yoffset, SCREEN_USING>>
      /\ \/ \E points : /\ Somewhere(points, 1 - u) /\ todo' = Then(Paint(0, points), t)
                        /\ Drawable(p) => Coming(points, Copy(p, 1 - u))
         \/ ~Drawable(p) /\ todo' = t
  BY <1>1, PictureStep DEF NextPicture, t, p
<1>3. HasPicture(u, i, r)'
  <2>1. On(u)'
    BY <1>1, <1>2, OnKept
  <2>. QED  BY <1>1, <1>2, <2>1 DEF NextPicture, HasPicture, Shows
<1>4. ASSUME NEW points, Somewhere(points, 1 - u), todo' = Then(Paint(0, points), t),
             Drawable(p) => Coming(points, Copy(p, 1 - u))
      PROVE  PicturePhase'
  <2>1. Drawable(p) => Coming(points, Copy(p, 1 - u))'
    BY <1>2, <1>4 DEF Coming
  <2>2. NextPainting(u, i, points, r)'
    BY <1>1, <1>3, <1>4, <2>1 DEF NextPainting, t, p
  <2>. QED  BY <2>2 DEF PicturePhase
<1>5. CASE ~Drawable(p) /\ todo' = t
  <2>1. NextSwitch(u, i, r)'
    BY <1>1, <1>3, <1>5 DEF NextSwitch, t, p
  <2>. QED  BY <2>1 DEF PicturePhase
<1>. QED  BY <1>2, <1>4, <1>5

\* while it is drawn
LEMMA NextPaintingStep ==
  ASSUME NEW u, NEW i, NEW points, NEW r, NextPainting(u, i, points, r), FbNext
  PROVE  PicturePhase'
<1> DEFINE t == Then(switch_vscreen, TurnThen(i + 1, r))
           p == Pictures[i + 1]
<1>1. /\ Harmless(r) /\ On(u) /\ i \in 1 .. Len(Pictures) /\ i < Len(Pictures)
      /\ i + 1 \in 1 .. Len(Pictures) /\ u \in Screens /\ 1 - u \in Screens /\ 1 - (1 - u) = u /\ IsList(t)
  BY ListsOfTurns, DemosAssumption DEF NextPainting, HasPicture, On, Screens
<1>. HIDE DEF t, p
<1>2. /\ On(u)'
      /\ \/ \E rest : /\ Somewhere(rest, 1 - u) /\ todo' = Then(Paint(0, rest), t)
                      /\ Drawable(p) => Coming(rest, Copy(p, 1 - u))'
         \/ todo' = t /\ (Drawable(p) => Shows(Copy(p, 1 - u))')
      /\ Shows(Copy(Pictures[i], u)) => Shows(Copy(Pictures[i], u))'
  <2>1. /\ Somewhere(points, 1 - u) /\ (Drawable(p) => Coming(points, Copy(p, 1 - u)))
        /\ todo = Then(Paint(0, points), t)
    BY DEF NextPainting, t, p
  <2>2. /\ On(u)'
        /\ \/ \E rest : /\ Somewhere(rest, 1 - u) /\ todo' = Then(Paint(0, rest), t)
                        /\ Drawable(p) => Coming(rest, Copy(p, 1 - u))'
           \/ todo' = t /\ (Drawable(p) => Shows(Copy(p, 1 - u))')
        /\ \A k \in 1 .. Len(Pictures) :
             Shows(Copy(Pictures[k], 1 - (1 - u))) => Shows(Copy(Pictures[k], 1 - (1 - u)))'
    BY <1>1, <2>1, PicturePaintStep DEF p
  <2>. QED  BY <2>2, <1>1
<1>3. HasPicture(u, i, r)'
  BY <1>1, <1>2 DEF NextPainting, HasPicture
<1>4. ASSUME NEW rest, Somewhere(rest, 1 - u), todo' = Then(Paint(0, rest), t),
             Drawable(p) => Coming(rest, Copy(p, 1 - u))'
      PROVE  PicturePhase'
  <2>1. NextPainting(u, i, rest, r)'
    BY <1>1, <1>3, <1>4 DEF NextPainting, t, p
  <2>. QED  BY <2>1 DEF PicturePhase
<1>5. CASE todo' = t /\ (Drawable(p) => Shows(Copy(p, 1 - u))')
  <2>1. NextSwitch(u, i, r)'
    BY <1>1, <1>3, <1>5 DEF NextSwitch, t, p
  <2>. QED  BY <2>1 DEF PicturePhase
<1>. QED  BY <1>2, <1>4, <1>5

\* and when it is switched to
LEMMA NextSwitchStep ==
  ASSUME NEW u, NEW i, NEW r, NextSwitch(u, i, r), FbNext
  PROVE  PicturePhase'
<1>1. /\ Harmless(r) /\ On(u) /\ i \in 1 .. Len(Pictures) /\ i < Len(Pictures)
      /\ i + 1 \in 1 .. Len(Pictures) /\ IsList(TurnThen(i + 1, r))
  BY ListsOfTurns, DemosAssumption DEF NextSwitch, HasPicture
<1>2. On(1 - u)' /\ todo' = TurnThen(i + 1, r) /\ UNCHANGED memory
  BY <1>1, SwitchStep DEF NextSwitch
<1>3. AtTurn(1 - u, i + 1, r)'
  BY <1>1, <1>2 DEF NextSwitch, AtTurn, HasPicture, Shows
<1>. QED  BY <1>3 DEF PicturePhase

\* draw_flash_BMP goes from phase to phase until it returns.
LEMMA PicturePhaseStep ==
  ASSUME PicturePhase, FbNext
  PROVE  PicturePhase' \/ (Harmless(todo)' /\ IsMemory')
BY FirstPictureStep, FirstPaintingStep, AtTurnStep, NextPictureStep, NextPaintingStep, NextSwitchStep
   DEF PicturePhase

-----------------------------------------------------------------------------
\* The claim for the turn at k of the list
Upright(k) ==
  Waits(k, "turn", 1) =>
    LET c == todo[k].call
        p == c.pictures[todo[k].i - Hidden(k)]
    IN /\ p.file = "whole" /\ p.bits \in {24, 32}
       /\ p.bits = 24 => Stride(p) # p.width * 3
       =>
         \A row \in 0 .. Height(p) - 1, col \in 0 .. p.width - 1 :
           Shown(c.ybias + row, c.xbias + col) =
             <<p.name, IF p.height > 0 THEN p.height - 1 - row ELSE row, col>>

\* The picture last switched to is whole and upright.
LEMMA TurnIsUpright ==
  ASSUME NEW u, NEW i, NEW r, HasPicture(u, i, r), NEW k, NEW j \in Int,
         todo[k] = Turn(Flash, j), Hidden(k) \in Int, j - Hidden(k) = i
  PROVE  Upright(k) /\ todo[k].op = "turn"
<1> DEFINE p == Pictures[i]
<1>1. /\ todo[k].call = Flash /\ todo[k].i = j /\ Flash.pictures = Pictures
      /\ todo[k].op = "turn" /\ Flash.xbias = Bias /\ Flash.ybias = Bias
  <2>1. Turn(Flash, j).call = Flash /\ Turn(Flash, j).i = j /\ Turn(Flash, j).op = "turn"
    BY TurnIs
  <2>. QED  BY <2>1, FlashIs
<1>2. ASSUME Drawable(p), NEW row \in 0 .. Height(p) - 1, NEW col \in 0 .. p.width - 1
      PROVE  Shown(Bias + row, Bias + col) = <<p.name, RowOf(p, row), col>>
  <2>1. <<CellAt(u, Bias + row, Bias + col), <<p.name, RowOf(p, row), col>>>> \in Copy(p, u)
    BY DEF Copy
  <2>2. (yoffset + (Bias + row)) * Columns + (Bias + col) = CellAt(u, Bias + row, Bias + col)
    <3>1. Rows \in Nat /\ u \in Nat /\ yoffset = u * Rows /\ Bias \in Nat /\ row \in Nat
      BY FrambufferAssumption, DemosAssumption DEF HasPicture, On, Screens
    <3>2. yoffset + (Bias + row) = (Bias + row) + u * Rows
      BY <3>1
    <3>. QED  BY <3>2 DEF CellAt
  <2>3. Shows(Copy(p, u))
    BY <1>2 DEF HasPicture
  <2>. QED  BY <2>1, <2>2, <2>3 DEF Shown, Shows
<1>. QED  BY <1>1, <1>2 DEF Upright, Drawable, RowOf

\* In every phase the panel shows what is claimed.
LEMMA PicturePhaseIsUpright ==
  ASSUME PicturePhase
  PROVE  \A k \in DOMAIN todo : Loose(todo[k]) \/ (todo[k].op = "turn" /\ Upright(k))
<1> DEFINE Claim(k) == Loose(todo[k]) \/ (todo[k].op = "turn" /\ Upright(k))
<1>1. SUFFICES ASSUME NEW k \in DOMAIN todo PROVE Claim(k)
  OBVIOUS
<1>2. \A points : Loose(Paint(0, points)) /\ Paint(0, points).op # "switch"
  BY DEF Loose, Paint
<1>3. Loose(switch_vscreen) /\ switch_vscreen.op = "switch"
  BY DEF Loose, switch_vscreen
<1>4. \A j, s : Loose(DrawCall(j, s)) /\ DrawCall(j, s).op # "switch"
  BY FlashIs
<1>5. ASSUME k = 2, todo[k] = Turn(Flash, 1) PROVE Claim(k)
  <2>1. Turn(Flash, 1).i = 1 /\ Turn(Flash, 1).op = "turn"
    BY TurnIs
  <2>. QED  BY <1>5, <2>1 DEF Upright, Waits
<1>6. ASSUME NEW r, FirstPicture(r) PROVE Claim(k)
  <2>1. Loose(todo[k]) \/ (k = 2 /\ todo[k] = Turn(Flash, 1))
    BY <1>4, <1>6, OneBefore DEF FirstPicture, TurnThen
  <2>. QED  BY <2>1, <1>5
<1>7. ASSUME NEW points, NEW r, FirstPainting(points, r) PROVE Claim(k)
  <2>1. Loose(todo[k]) \/ (k = 2 /\ todo[k] = Turn(Flash, 1))
    BY <1>2, <1>7, OneBefore DEF FirstPainting, TurnThen
  <2>. QED  BY <2>1, <1>5
<1>8. ASSUME NEW u, NEW i, NEW r, AtTurn(u, i, r) PROVE Claim(k)
  <2>1. Loose(todo[k]) \/ (todo[k] = Turn(Flash, i) /\ Hidden(k) = 0)
    BY <1>8, NoneBefore DEF AtTurn, HasPicture, TurnThen
  <2>2. i \in Int /\ i - 0 = i /\ HasPicture(u, i, r)
    BY <1>8 DEF AtTurn, HasPicture
  <2>3. todo[k] = Turn(Flash, i) /\ Hidden(k) = 0 => Claim(k)
    BY <2>2, TurnIsUpright
  <2>. QED  BY <2>1, <2>3
<1>9. ASSUME NEW u, NEW i, NEW r, HasPicture(u, i, r),
             Loose(todo[k]) \/ (todo[k] = Turn(Flash, i + 1) /\ Hidden(k) = 1)
      PROVE  Claim(k)
  <2>1. i + 1 \in Int /\ (i + 1) - 1 = i
    BY <1>9 DEF HasPicture
  <2>2. todo[k] = Turn(Flash, i + 1) /\ Hidden(k) = 1 => Claim(k)
    BY <1>9, <2>1, TurnIsUpright
  <2>. QED  BY <1>9, <2>2
<1>10. ASSUME NEW u, NEW i, NEW r, NextPicture(u, i, r) PROVE Claim(k)
  <2>1. Loose(todo[k]) \/ (todo[k] = Turn(Flash, i + 1) /\ Hidden(k) = 1)
    BY <1>3, <1>4, <1>10, TwoBefore DEF NextPicture, HasPicture, TurnThen
  <2>. QED  BY <2>1, <1>9, <1>10 DEF NextPicture
<1>11. ASSUME NEW u, NEW i, NEW points, NEW r, NextPainting(u, i, points, r) PROVE Claim(k)
  <2>1. Loose(todo[k]) \/ (todo[k] = Turn(Flash, i + 1) /\ Hidden(k) = 1)
    BY <1>2, <1>3, <1>11, TwoBefore DEF NextPainting, HasPicture, TurnThen
  <2>. QED  BY <2>1, <1>9, <1>11 DEF NextPainting
<1>12. ASSUME NEW u, NEW i, NEW r, NextSwitch(u, i, r) PROVE Claim(k)
  <2>1. Loose(todo[k]) \/ (todo[k] = Turn(Flash, i + 1) /\ Hidden(k) = 1)
    BY <1>3, <1>12, OneBefore DEF NextSwitch, HasPicture, TurnThen
  <2>. QED  BY <2>1, <1>9, <1>12 DEF NextSwitch
<1>. QED  BY <1>6, <1>7, <1>8, <1>10, <1>11, <1>12 DEF PicturePhase

-----------------------------------------------------------------------------
\* Lists of calls none of which is a frame or a turn of which something is claimed
Quiet(x) == Loose(x) \/ x.op \notin {"frame", "turn"}
Calm(s) == \E v : s \in Seq(v) /\ \A x \in v : Quiet(x)

\* Such lists, put together
LEMMA CalmLists ==
  /\ \A r : Harmless(r) => Calm(r)
  /\ \A p, q : Calm(p) /\ Calm(q) => Calm(p \o q)
  /\ \A x : Quiet(x) => Calm(<<x>>)
  /\ \A x, r : Quiet(x) /\ Calm(r) => Calm(Then(x, r))
<1>1. \A r : Harmless(r) => Calm(r)
  BY DEF Harmless, Calm, Quiet
<1>2. ASSUME NEW p, NEW q, Calm(p), Calm(q) PROVE Calm(p \o q)
  <2>1. PICK v : p \in Seq(v) /\ \A x \in v : Quiet(x)
    BY <1>2 DEF Calm
  <2>2. PICK w : q \in Seq(w) /\ \A x \in w : Quiet(x)
    BY <1>2 DEF Calm
  <2>3. p \o q \in Seq(v \cup w)
    BY <2>1, <2>2
  <2>. QED  BY <2>1, <2>2, <2>3 DEF Calm
<1>3. ASSUME NEW x, Quiet(x) PROVE Calm(<<x>>)
  <2>1. PICK s : s = <<x>>
    OBVIOUS
  <2>2. s \in Seq({x})
    BY <2>1
  <2>3. Calm(s)
    BY <1>3, <2>2 DEF Calm
  <2>. QED  BY <2>1, <2>3
<1>. QED  BY <1>1, <1>2, <1>3 DEF Then

\* Of such a list nothing is claimed.
LEMMA CalmIsWhole ==
  ASSUME Calm(todo)
  PROVE  BlockIsWhole /\ PictureIsWhole
<1>1. \A k \in DOMAIN todo : Quiet(todo[k])
  BY DEF Calm
<1>2. \A k \in DOMAIN todo : Whole(k) /\ Upright(k)
  BY <1>1 DEF Quiet, Loose, Whole, Upright, Waits
<1>. QED  BY <1>2 DEF BlockIsWhole, PictureIsWhole, Whole, Upright

\* draw_flash_block claims nothing of pictures, nor draw_flash_BMP of blocks.
LEMMA PhasesAreWhole ==
  ASSUME BlockPhase \/ PicturePhase
  PROVE  BlockIsWhole /\ PictureIsWhole
<1>1. ASSUME NEW k \in DOMAIN todo
      PROVE  Loose(todo[k]) \/ (todo[k].op = "frame" /\ Whole(k)) \/ (todo[k].op = "turn" /\ Upright(k))
  BY BlockPhaseIsWhole, PicturePhaseIsUpright
<1>2. \A k \in DOMAIN todo : Whole(k) /\ Upright(k)
  BY <1>1 DEF Loose, Whole, Upright, Waits
<1>. QED  BY <1>2 DEF BlockIsWhole, PictureIsWhole, Whole, Upright

-----------------------------------------------------------------------------
\* Before draw_flash_block and draw_flash_BMP: fb_init, and what wipes both screens
Flasher(h) == IsBlock(h) \/ h = Flash
Starting(h, pre, r) ==
  /\ IsMemory /\ Harmless(r) /\ pre \in Seq(Wipes)
  /\ \A a \in Cells : \E j \in 1 .. Len(pre) : Covers(pre[j], a)
  /\ todo = Then(fb_init(0), pre \o Then(h, r))
FbInv ==
  \/ Harmless(todo) /\ IsMemory
  \/ BlockPhase
  \/ PicturePhase
  \/ \E h, pre, r : Flasher(h) /\ (Starting(h, pre, r) \/ Clearing(h, pre, r))

\* Before either of them nothing is claimed,
LEMMA WipesAreQuiet ==
  \A x \in Wipes : Quiet(x)
BY DEF Wipes, Quiet, wipe_screen, wipe_oldscreen, Paint

\* nor when it is called.
LEMMA FlasherIsQuiet ==
  ASSUME NEW h, Flasher(h)
  PROVE  Quiet(h)
BY FlashIs DEF Flasher, IsBlock, Quiet

\* fb_init shows the first screen.
LEMMA StartingStep ==
  ASSUME NEW h, NEW pre, NEW r, Starting(h, pre, r), FbNext
  PROVE  Clearing(h, pre, r)'
<1> DEFINE q == pre \o Then(h, r)
<1>1. IsList(q)
  <2>1. IsList(r) /\ IsList(Then(h, r))
    BY HarmlessThen, ThenIs DEF Starting
  <2>2. PICK t : t = Then(h, r)
    OBVIOUS
  <2>3. PICK v : t \in Seq(v)
    BY <2>1, <2>2 DEF IsList
  <2>4. pre \o t \in Seq(Wipes \cup v)
    BY <2>3 DEF Starting
  <2>. QED  BY <2>2, <2>4 DEF IsList
<1>. HIDE DEF q
<1>2. Head(todo) = fb_init(0) /\ Tail(todo) = q
  BY <1>1, ThenIs DEF Starting, q
<1>3. fb_init(0).op = "map" /\ fb_init(0).buff = 0
  BY DEF fb_init
<1>4. Map
  BY <1>2, <1>3, ActionOf
<1>5. /\ mapped' = mapped \cup {0} /\ yoffset' = 0 /\ SCREEN_USING' = 0 /\ UNCHANGED memory
      /\ todo' = <<>> \o q
  BY <1>2, <1>3, <1>4 DEF Map, Becomes, V_SCREEN0
<1>6. todo' = q
  BY <1>1, <1>5, OneByOne
<1>7. On(0)'
  <2>1. 0 * Rows = 0
    BY FrambufferAssumption
  <2>2. IsMemory'
    BY <1>5 DEF Starting, IsMemory
  <2>. QED  BY <1>5, <2>1, <2>2 DEF On, Screens
<1>. QED  BY <1>5, <1>6, <1>7 DEF Starting, Clearing, Wiping, Harmless, q

\* Once both screens are wiped
LEMMA WipedStep ==
  ASSUME NEW h, NEW r, Flasher(h), Clearing(h, <<>>, r), FbNext
  PROVE  BlockPhase' \/ PicturePhase' \/ (Harmless(todo)' /\ IsMemory')
<1>1. /\ On(0) /\ Harmless(r) /\ IsList(r) /\ IsList(Then(h, r)) /\ SCREEN_USING = 0
      /\ 0 \in Screens /\ 1 \in Screens /\ 1 - 0 = 1
  BY HarmlessThen, ThenIs DEF Clearing, On, Screens
<1>2. \A a \in Cells : memory[0][a] = Black
  <2>1. Len(<<>>) = 0
    OBVIOUS
  <2>. QED  BY <2>1 DEF Clearing, Wiping
<1>3. Shows(Empty(0)) /\ Shows(Empty(1))
  BY <1>1, <1>2, CellsDiffer DEF Shows, Empty
<1>4. todo = Then(h, r)
  BY <1>1, OneByOne DEF Clearing
<1>5. Head(todo) = h /\ Tail(todo) = r
  BY <1>1, <1>4, ThenIs
<1>6. CASE IsBlock(h)
  <2> DEFINE first == PointsOf(h, 0, 0, h.color)
  <2>1. h.op = "flash_block" /\ h.steps >= 1 /\ h.block.xmax + 0 <= Columns
        /\ 0 <= h.block.xmin + 0 /\ 0 \in Int
    <3>1. Steps \in Nat \ {0, 1}
      BY DemosAssumption
    <3>2. 0 \in Int /\ 0 < Steps /\ 0 >= 0
      BY <3>1
    <3>. QED  BY <1>6, <3>1, <3>2, BlockRoom DEF IsBlock
  <2>2. FlashBlock
    BY <1>5, <2>1, ActionOf
  <2>3. UNCHANGED <<memory, mapped, yoffset, SCREEN_USING>>
    BY <2>2 DEF FlashBlock
  <2>4. BlockAt(h, 0, h.color, 0) = Paint(0, first)
    BY DEF BlockAt, PointsOf
  <2>5. Coming(first, WithBlock(h, 0, 0))
    <3>1. ShowsIn(memory[0], Empty(0))
      BY <1>3 DEF Shows, ShowsIn
    <3>2. BringsIn(memory[0], first, WithBlock(h, 0, 0))
      BY <1>1, <1>6, <2>1, <3>1, DrawComes
    <3>. QED  BY <3>2 DEF BringsIn, Coming
  <2>6. On(0)' /\ Shows(Empty(1))' /\ Coming(first, WithBlock(h, 0, 0))' /\ IsMemory'
    <3>1. On(0)'
      BY <1>1, <2>3, OnKept
    <3>. QED  BY <1>3, <2>3, <2>5, <3>1 DEF Shows, Coming, On
  <2>. HIDE DEF first
  <2>7. \A x, y, z, t : <<x, y, z, t>> \o r = Then(x, Then(y, Then(z, Then(t, r))))
    BY <1>1, FourByOne
  <2>8. \A x, y : <<x, y>> \o r = Then(x, Then(y, r))
    BY <1>1, TwoByOne
  <2>9. CASE h.block.xmin = 0
    <3>1. PICK i \in Left : Becomes(<<BlockAt(h, 0, h.color, 0), BlockAt(h, i, h.color, 1),
                                      switch_vscreen, Frame(h, 2, i)>>)
      BY <1>1, <1>5, <2>1, <2>2, <2>9 DEF FlashBlock, V_SCREEN1
    <3>2. todo' = Then(Paint(0, first), Then(BlockAt(h, i, h.color, 1),
                       Then(switch_vscreen, Then(Frame(h, 2, i), r))))
      <4>1. todo' = <<Paint(0, first), BlockAt(h, i, h.color, 1), switch_vscreen, Frame(h, 2, i)>> \o r
        BY <3>1, <2>4, <1>5 DEF Becomes
      <4>. QED  BY <4>1, <2>7
    <3>3. CASE i = 1
      <4>1. LeftBlock(h, first, r)'
        BY <1>1, <1>6, <2>6, <2>9, <3>2, <3>3 DEF LeftBlock, FrameThen
      <4>. QED  BY <4>1 DEF BlockPhase
    <3>4. CASE i # 1
      <4>1. Loose(Frame(h, 2, i))
        BY <3>4 DEF Loose, Frame
      <4>2. \A b, points : Loose(Paint(b, points))
        BY DEF Loose, Paint
      <4>3. Loose(switch_vscreen) /\ Loose(BlockAt(h, i, h.color, 1)) /\ Loose(Paint(0, first))
        BY <4>2 DEF Loose, switch_vscreen, BlockAt
      <4>4. Harmless(Then(Frame(h, 2, i), r))
        BY <1>1, <4>1, HarmlessThen
      <4>5. Harmless(Then(switch_vscreen, Then(Frame(h, 2, i), r)))
        BY <4>3, <4>4, HarmlessThen
      <4>6. Harmless(Then(BlockAt(h, i, h.color, 1), Then(switch_vscreen, Then(Frame(h, 2, i), r))))
        BY <4>3, <4>5, HarmlessThen
      <4>7. Harmless(todo')
        BY <3>2, <4>3, <4>6, HarmlessThen
      <4>. QED  BY <4>7, <2>6
    <3>. QED  BY <3>3, <3>4
  <2>10. CASE h.block.xmin # 0
    <3>1. Becomes(<<BlockAt(h, 0, h.color, 0), Frame(h, 1, 1)>>)
      BY <1>1, <1>5, <2>1, <2>2, <2>10 DEF FlashBlock, V_SCREEN1
    <3>2. todo' = Then(Paint(0, first), Then(Frame(h, 1, 1), r))
      BY <3>1, <2>4, <2>8, <1>5 DEF Becomes
    <3>3. FirstBlock(h, first, r)'
      BY <1>1, <1>6, <2>6, <2>10, <3>2 DEF FirstBlock, FrameThen
    <3>. QED  BY <3>3 DEF BlockPhase
  <2>. QED  BY <2>9, <2>10
<1>7. CASE h = Flash
  <2>1. h.op = "flash_BMP" /\ PictureOf(h, 0, 0) = DrawCall(1, 0)
    BY <1>7, FlashIs
  <2>2. FlashBMP
    BY <1>5, <2>1, ActionOf
  <2>3. Becomes(<<DrawCall(1, 0), Turn(Flash, 1)>>) /\ UNCHANGED <<memory, mapped, yoffset, SCREEN_USING>>
    BY <1>1, <1>5, <1>7, <2>1, <2>2 DEF FlashBMP
  <2>4. todo' = Then(DrawCall(1, 0), TurnThen(1, r))
    BY <1>1, <1>5, <2>3, TwoByOne DEF Becomes, TurnThen
  <2>5. On(0)'
    BY <1>1, <2>3, OnKept
  <2>6. FirstPicture(r)'
    BY <1>1, <2>4, <2>5 DEF FirstPicture
  <2>. QED  BY <2>6 DEF PicturePhase
<1>. QED  BY <1>6, <1>7 DEF Flasher

\* Every step keeps the invariant,
LEMMA FbInvStep ==
  ASSUME FbInv, [FbNext]_fbvars
  PROVE  FbInv'
<1>1. CASE UNCHANGED fbvars
  <2>0. UNCHANGED <<memory, mapped, yoffset, SCREEN_USING, todo>>
    BY <1>1 DEF fbvars
  <2>1. CASE Harmless(todo) /\ IsMemory
    BY <2>0, <2>1 DEF FbInv, Harmless, IsMemory
  <2>2. CASE BlockPhase
    <3>1. ASSUME NEW c, NEW points, NEW r, FirstBlock(c, points, r) PROVE FirstBlock(c, points, r)'
      BY <2>0, <3>1 DEF FirstBlock, On, IsMemory, Shows, Coming
    <3>2. ASSUME NEW c, NEW points, NEW r, LeftBlock(c, points, r) PROVE LeftBlock(c, points, r)'
      BY <2>0, <3>2 DEF LeftBlock, On, IsMemory, Shows, Coming
    <3>3. ASSUME NEW c, NEW u, NEW i, NEW r, AtFrame(c, u, i, r) PROVE AtFrame(c, u, i, r)'
      BY <2>0, <3>3 DEF AtFrame, IsAt, On, IsMemory, Shows
    <3>4. ASSUME NEW c, NEW u, NEW i, NEW r, Switching(c, u, i, r) PROVE Switching(c, u, i, r)'
      BY <2>0, <3>4 DEF Switching, IsAt, On, IsMemory, Shows
    <3>5. ASSUME NEW c, NEW u, NEW i, NEW points, NEW r, Erasing(c, u, i, points, r)
          PROVE  Erasing(c, u, i, points, r)'
      BY <2>0, <3>5 DEF Erasing, IsAt, On, IsMemory, Shows, Coming
    <3>6. ASSUME NEW c, NEW u, NEW i, NEW points, NEW r, Drawing(c, u, i, points, r)
          PROVE  Drawing(c, u, i, points, r)'
      BY <2>0, <3>6 DEF Drawing, IsAt, On, IsMemory, Shows, Coming
    <3>7. BlockPhase'
      BY <2>2, <3>1, <3>2, <3>3, <3>4, <3>5, <3>6 DEF BlockPhase
    <3>. QED  BY <3>7 DEF FbInv
  <2>3. CASE PicturePhase
    <3>1. ASSUME NEW r, FirstPicture(r) PROVE FirstPicture(r)'
      BY <2>0, <3>1 DEF FirstPicture, On, IsMemory
    <3>2. ASSUME NEW points, NEW r, FirstPainting(points, r) PROVE FirstPainting(points, r)'
      BY <2>0, <3>2 DEF FirstPainting, On, IsMemory, Coming
    <3>3. ASSUME NEW u, NEW i, NEW r, AtTurn(u, i, r) PROVE AtTurn(u, i, r)'
      BY <2>0, <3>3 DEF AtTurn, HasPicture, On, IsMemory, Shows
    <3>4. ASSUME NEW u, NEW i, NEW r, NextPicture(u, i, r) PROVE NextPicture(u, i, r)'
      BY <2>0, <3>4 DEF NextPicture, HasPicture, On, IsMemory, Shows
    <3>5. ASSUME NEW u, NEW i, NEW points, NEW r, NextPainting(u, i, points, r)
          PROVE  NextPainting(u, i, points, r)'
      BY <2>0, <3>5 DEF NextPainting, HasPicture, On, IsMemory, Shows, Coming
    <3>6. ASSUME NEW u, NEW i, NEW r, NextSwitch(u, i, r) PROVE NextSwitch(u, i, r)'
      BY <2>0, <3>6 DEF NextSwitch, HasPicture, On, IsMemory, Shows
    <3>7. PicturePhase'
      BY <2>3, <3>1, <3>2, <3>3, <3>4, <3>5, <3>6 DEF PicturePhase
    <3>. QED  BY <3>7 DEF FbInv
  <2>4. ASSUME NEW h, NEW pre, NEW r, Flasher(h), Starting(h, pre, r) PROVE FbInv'
    <3>1. Starting(h, pre, r)'
      BY <2>0, <2>4 DEF Starting, IsMemory
    <3>. QED  BY <2>4, <3>1 DEF FbInv
  <2>5. ASSUME NEW h, NEW pre, NEW r, Flasher(h), Clearing(h, pre, r) PROVE FbInv'
    <3>1. Clearing(h, pre, r)'
      BY <2>0, <2>5 DEF Clearing, Wiping, On, IsMemory
    <3>. QED  BY <2>5, <3>1 DEF FbInv
  <2>. QED  BY <2>1, <2>2, <2>3, <2>4, <2>5 DEF FbInv
<1>2. CASE FbNext
  <2>1. CASE Harmless(todo) /\ IsMemory
    BY <1>2, <2>1, HarmlessStep DEF FbInv
  <2>2. CASE BlockPhase
    BY <1>2, <2>2, BlockPhaseStep DEF FbInv
  <2>3. CASE PicturePhase
    BY <1>2, <2>3, PicturePhaseStep DEF FbInv
  <2>4. ASSUME NEW h, NEW pre, NEW r, Flasher(h), Starting(h, pre, r) PROVE FbInv'
    BY <1>2, <2>4, StartingStep DEF FbInv
  <2>5. ASSUME NEW h, NEW pre, NEW r, Flasher(h), Clearing(h, pre, r) PROVE FbInv'
    <3>1. CASE pre = <<>>
      BY <1>2, <2>5, <3>1, WipedStep DEF FbInv
    <3>2. CASE pre # <<>>
      BY <1>2, <2>5, <3>2, ClearingStep DEF FbInv
    <3>. QED  BY <3>1, <3>2
  <2>. QED  BY <2>1, <2>2, <2>3, <2>4, <2>5 DEF FbInv
<1>. QED  BY <1>1, <1>2

\* and it says what is claimed.
LEMMA FbInvIsWhole ==
  ASSUME FbInv
  PROVE  BlockIsWhole /\ PictureIsWhole
<1>1. CASE Harmless(todo)
  BY <1>1, CalmLists, CalmIsWhole
<1>2. CASE BlockPhase \/ PicturePhase
  BY <1>2, PhasesAreWhole
<1>3. ASSUME NEW h, NEW pre, NEW r, Flasher(h), Starting(h, pre, r) \/ Clearing(h, pre, r)
      PROVE  Calm(todo)
  <2>1. Calm(Then(h, r))
    BY <1>3, CalmLists, FlasherIsQuiet DEF Starting, Clearing
  <2>2. Calm(pre)
    BY <1>3, WipesAreQuiet DEF Starting, Clearing, Wiping, Calm
  <2>3. Calm(pre \o Then(h, r)) /\ Quiet(fb_init(0))
    <3>1. Quiet(fb_init(0))
      BY DEF Quiet, fb_init
    <3>. QED  BY <2>1, <2>2, <3>1, CalmLists
  <2>. QED  BY <1>3, <2>3, CalmLists DEF Starting, Clearing
<1>. QED  BY <1>1, <1>2, <1>3, CalmIsWhole DEF FbInv

-----------------------------------------------------------------------------
\* What each demonstration is made of
LEMMA Parts ==
  /\ \A b : Loose(fb_init(b)) /\ Loose(release_fb(b)) /\ Loose(wipe_screen(b)) /\ Loose(wipe_oldscreen(b))
  /\ \A b, points : Loose(Paint(b, points))
  /\ \A b : Loose(wipe_allscreen(b)) /\ Loose(wipe_screen0(b))
  /\ \A b, name : Loose(Full(b, name))
  /\ \A p, x, y : Loose(draw_BMP(p, x, y))
  /\ Loose(switch_vscreen)
<1>1. \A b : Loose(fb_init(b)) /\ Loose(release_fb(b)) /\ Loose(wipe_screen(b)) /\ Loose(wipe_oldscreen(b))
  BY DEF Loose, fb_init, release_fb, wipe_screen, wipe_oldscreen
<1>2. \A b, points : Loose(Paint(b, points))
  BY DEF Loose, Paint
<1>3. \A p, x, y : Loose(draw_BMP(p, x, y))
  BY DEF Loose, draw_BMP
<1>4. Loose(switch_vscreen)
  BY DEF Loose, switch_vscreen
<1>5. /\ \A b : Loose(wipe_allscreen(b)) /\ Loose(wipe_screen0(b))
      /\ \A b, name : Loose(Full(b, name))
  BY <1>2 DEF wipe_allscreen, wipe_screen0, Full
<1>. QED  BY <1>1, <1>2, <1>3, <1>4, <1>5

\* Lists of loose calls, put together
LEMMA HarmlessLists ==
  /\ Harmless(<<>>)
  /\ \A p, q : Harmless(p) /\ Harmless(q) => Harmless(p \o q)
  /\ \A f : \A n \in Nat :
       /\ DOMAIN f = 1 .. n /\ f = [k \in 1 .. n |-> f[k]] /\ \A k \in 1 .. n : Loose(f[k])
       => Harmless(f)
<1>1. Harmless(<<>>)
  <2>1. PICK v : v = {}
    OBVIOUS
  <2>2. PICK s : s = <<>>
    OBVIOUS
  <2>3. s \in Seq(v) /\ \A x \in v : Loose(x)
    BY <2>1, <2>2
  <2>4. Harmless(s)
    BY <2>3 DEF Harmless
  <2>. QED  BY <2>2, <2>4
<1>2. ASSUME NEW p, NEW q, Harmless(p), Harmless(q) PROVE Harmless(p \o q)
  <2>1. PICK v : p \in Seq(v) /\ \A x \in v : Loose(x)
    BY <1>2 DEF Harmless
  <2>2. PICK w : q \in Seq(w) /\ \A x \in w : Loose(x)
    BY <1>2 DEF Harmless
  <2>3. p \o q \in Seq(v \cup w)
    BY <2>1, <2>2
  <2>. QED  BY <2>1, <2>2, <2>3 DEF Harmless
<1>3. ASSUME NEW f, NEW n \in Nat, DOMAIN f = 1 .. n, f = [k \in 1 .. n |-> f[k]],
             \A k \in 1 .. n : Loose(f[k])
      PROVE  Harmless(f)
  <2>1. PICK v : v = {f[k] : k \in 1 .. n}
    OBVIOUS
  <2>2. f \in [1 .. n -> v]
    BY <1>3, <2>1
  <2>3. f \in Seq(v)
    BY <2>2
  <2>4. \A x \in v : Loose(x)
    BY <1>3, <2>1
  <2>. QED  BY <2>3, <2>4 DEF Harmless
<1>. QED  BY <1>1, <1>2, <1>3

\* Lists of several calls
LEMMA Harmless1 ==
  ASSUME NEW a, Loose(a)
  PROVE  Harmless(<<a>>) /\ <<a>> = Then(a, <<>>)
<1>1. IsList(<<>>) /\ Harmless(<<>>)
  BY HarmlessLists, HarmlessThen
<1>2. <<a>> = Then(a, <<>>)
  <2>1. PICK s : s = <<a>>
    OBVIOUS
  <2>2. s \in Seq({a})
    BY <2>1
  <2>3. s \o <<>> = s
    BY <2>2
  <2>. QED  BY <2>1, <2>3 DEF Then
<1>. QED  BY <1>1, <1>2, HarmlessThen

\* and of two
LEMMA Harmless2 ==
  ASSUME NEW a, Loose(a), NEW b, Loose(b)
  PROVE  Harmless(<<a, b>>)
<1>1. <<a, b>> = <<a>> \o <<b>>
  <2>1. PICK w : a \in w /\ b \in w
    <3>1. a \in {a, b} /\ b \in {a, b}
      OBVIOUS
    <3>. QED  BY <3>1
  <2>. QED  BY <2>1, TwoOnes
<1>2. Harmless(<<a>>) /\ Harmless(<<b>>)
  BY Harmless1
<1>. QED  BY <1>1, <1>2, HarmlessLists

\* Five calls, as a demonstration begins
LEMMA FiveByOne ==
  ASSUME NEW r, IsList(r), NEW a, NEW b, NEW c, NEW d, NEW e
  PROVE  <<a, b, c, d, e>> \o r = Then(a, Then(b, Then(c, Then(d, Then(e, r)))))
<1>1. PICK v : r \in Seq(v)
  BY DEF IsList
<1>2. PICK w : r \in Seq(w) /\ <<a>> \in Seq(w) /\ <<b, c, d, e>> \in Seq(w)
  <2>1. r \in Seq(v \cup {a, b, c, d, e}) /\ <<a>> \in Seq(v \cup {a, b, c, d, e})
        /\ <<b, c, d, e>> \in Seq(v \cup {a, b, c, d, e})
    BY <1>1
  <2>. QED  BY <2>1
<1>3. <<a, b, c, d, e>> = <<a>> \o <<b, c, d, e>>
  BY <1>2
<1>4. (<<a>> \o <<b, c, d, e>>) \o r = <<a>> \o (<<b, c, d, e>> \o r)
  BY <1>2, ConcatTurns
<1>5. <<b, c, d, e>> \o r = Then(b, Then(c, Then(d, Then(e, r))))
  BY FourByOne
<1>. QED  BY <1>3, <1>4, <1>5 DEF Then

\* and the rest put together first
LEMMA FiveTurns ==
  ASSUME NEW p, IsList(p), NEW q, IsList(q), NEW a, NEW b, NEW c, NEW d, NEW e
  PROVE  (<<a, b, c, d, e>> \o p) \o q = <<a, b, c, d, e>> \o (p \o q)
<1>1. PICK v : p \in Seq(v)
  BY DEF IsList
<1>2. PICK w : q \in Seq(w)
  BY DEF IsList
<1>3. PICK u : p \in Seq(u) /\ q \in Seq(u) /\ <<a, b, c, d, e>> \in Seq(u)
  <2>1. p \in Seq(v \cup w \cup {a, b, c, d, e}) /\ q \in Seq(v \cup w \cup {a, b, c, d, e})
        /\ <<a, b, c, d, e>> \in Seq(v \cup w \cup {a, b, c, d, e})
    BY <1>1, <1>2
  <2>. QED  BY <2>1
<1>. QED  BY <1>3, ConcatTurns

\* A demonstration of four calls,
LEMMA FourAlone ==
  ASSUME NEW a, NEW b, NEW c, NEW d
  PROVE  <<a, b, c, d>> = Then(a, Then(b, Then(c, Then(d, <<>>))))
<1>1. PICK z : z = <<>>
  OBVIOUS
<1>2. IsList(z)
  BY <1>1, HarmlessLists, HarmlessThen
<1>3. PICK s : s = <<a, b, c, d>>
  OBVIOUS
<1>4. s \in Seq({a, b, c, d})
  BY <1>3
<1>5. s \o z = s
  BY <1>1, <1>4
<1>6. <<a, b, c, d>> \o z = Then(a, Then(b, Then(c, Then(d, z))))
  BY <1>2, FourByOne
<1>. QED  BY <1>1, <1>3, <1>5, <1>6

\* and one of six
LEMMA SixByOne ==
  ASSUME NEW a, NEW b, NEW c, NEW d, NEW e, NEW f
  PROVE  <<a, b, c, d, e, f>> = Then(a, Then(b, Then(c, Then(d, Then(e, Then(f, <<>>))))))
<1>1. PICK w : <<a>> \in Seq(w) /\ <<b, c, d, e, f>> \in Seq(w)
  <2>1. <<a>> \in Seq({a, b, c, d, e, f}) /\ <<b, c, d, e, f>> \in Seq({a, b, c, d, e, f})
    OBVIOUS
  <2>. QED  BY <2>1
<1>2. <<a, b, c, d, e, f>> = <<a>> \o <<b, c, d, e, f>>
  BY <1>1
<1>3. PICK z : z = <<>>
  OBVIOUS
<1>4. IsList(z)
  BY <1>3, HarmlessLists, HarmlessThen
<1>5. <<b, c, d, e, f>> \o z = Then(b, Then(c, Then(d, Then(e, Then(f, z)))))
  BY <1>4, FiveByOne
<1>6. <<b, c, d, e, f>> \o z = <<b, c, d, e, f>>
  <2>1. PICK s : s = <<b, c, d, e, f>>
    OBVIOUS
  <2>2. s \in Seq(w)
    BY <2>1, <1>1
  <2>3. s \o z = s
    BY <2>2, <1>3
  <2>. QED  BY <2>1, <2>3
<1>. QED  BY <1>2, <1>3, <1>5, <1>6 DEF Then

\* Covered cells
LEMMA CellsAreHalves ==
  /\ \A a \in Cells : a \in Half(0) \/ a \in Half(1)
  /\ \A s \in Screens : Half(s) \subseteq Cells
<1>1. screen0size \in Nat /\ screensize = 2 * screen0size
  BY FrambufferAssumption DEF screen0size, screensize
<1>. QED  BY <1>1 DEF Cells, Half, Screens

\* wipe_allscreen wipes both screens,
LEMMA AllIsWiped ==
  /\ wipe_allscreen(0) \in Wipes
  /\ \A a \in Cells : Covers(wipe_allscreen(0), a)
<1> DEFINE n == screensize
           points == Wipe(0, n)
<1>1. n \in Nat /\ Cells = 0 .. n - 1
  BY FrambufferAssumption DEF screen0size, screensize, Cells
<1>. HIDE DEF n
<1>2. points \in [1 .. n -> BlackPoints]
  BY <1>1 DEF Wipe, BlackPoints
<1>3. points \in Seq(BlackPoints) /\ Len(points) = n
  BY <1>1, <1>2
<1>4. \A a \in Cells : \E j \in 1 .. n : points[j][1] = a
  <2>1. SUFFICES ASSUME NEW a \in 0 .. n - 1 PROVE \E j \in 1 .. n : points[j][1] = a
    BY <1>1
  <2>2. a + 1 \in 1 .. n /\ 0 + (a + 1) - 1 = a
    BY <1>1
  <2>. QED  BY <2>2 DEF Wipe
<1>. HIDE DEF points
<1>5. wipe_allscreen(0) = Paint(0, points)
  BY DEF wipe_allscreen, points, n
<1>. QED  BY <1>3, <1>4, <1>5 DEF Wipes, Covers, Paint

\* and wipe_oldscreen and wipe_screen0 one each.
LEMMA HalvesAreWiped ==
  /\ wipe_oldscreen(0) \in Wipes /\ \A a \in Half(1) : Covers(wipe_oldscreen(0), a)
  /\ wipe_screen0(0) \in Wipes /\ \A a \in Half(0) : Covers(wipe_screen0(0), a)
<1>1. wipe_oldscreen(0) \in Wipes /\ \A a \in Half(1) : Covers(wipe_oldscreen(0), a)
  BY DEF Wipes, Covers, wipe_oldscreen
<1>2. wipe_screen0(0) = Paint(0, Wipe(0 * screen0size, screen0size)) /\ 0 \in Screens
  <2>1. 0 * screen0size = 0
    BY FrambufferAssumption DEF screen0size
  <2>. QED  BY <2>1 DEF wipe_screen0, Screens
<1>. QED  BY <1>1, <1>2, WipeCovers

-----------------------------------------------------------------------------
\* Each demonstration begins with both screens wiped, or with calls of which
\* nothing is claimed.
LEMMA InitHolds ==
  ASSUME FbInit
  PROVE  FbInv
<1>1. IsMemory
  <2>1. memory \in [0 .. 2 -> [Cells -> {make_color("before")}]]
    BY DEF FbInit
  <2>. QED  BY <2>1 DEF IsMemory
<1>2. CASE todo = fbblock
  <2> DEFINE h == draw_flash_block(Block, make_color("green"), Steps)
             w == wipe_allscreen(0)
             blocks == [k \in 1 .. 2 * Run |->
                          IF k % 2 = 0 THEN wipe_allscreen(0)
                          ELSE LET x == k \div 2
                               IN Paint(0, draw_block(Block.xmin + x, Block.xmax + x, Block.ymin, Block.ymax,
                                                      make_color("green")))]
             e == <<release_fb(0)>>
             t == blocks \o e
             r == Then(w, Then(switch_vscreen, t))
             pre == <<w>>
  <2>1. Flasher(h)
    BY DemosAssumption DEF Flasher, IsBlock, draw_flash_block
  <2>2. Loose(w) /\ Loose(switch_vscreen) /\ Harmless(e)
    BY Parts, Harmless1
  <2>3. Harmless(blocks)
    <3>1. 2 * Run \in Nat
      BY DemosAssumption
    <3>2. \A k \in 1 .. 2 * Run : Loose(blocks[k])
      BY Parts
    <3>3. DOMAIN blocks = 1 .. 2 * Run /\ blocks = [k \in 1 .. 2 * Run |-> blocks[k]]
      OBVIOUS
    <3>. HIDE DEF blocks
    <3>. QED  BY <3>1, <3>2, <3>3, HarmlessLists
  <2>. HIDE DEF h, w, blocks, e
  <2>4. Harmless(t) /\ Harmless(r) /\ IsList(t) /\ IsList(r)
    <3>1. Harmless(t)
      BY <2>2, <2>3, HarmlessLists
    <3>. HIDE DEF t
    <3>2. Harmless(Then(switch_vscreen, t))
      BY <2>2, <3>1, HarmlessThen
    <3>3. Harmless(r)
      BY <2>2, <3>2, HarmlessThen
    <3>. QED  BY <3>1, <3>3, HarmlessThen
  <2>5. todo = (<<fb_init(0), w, h, w, switch_vscreen>> \o blocks) \o e
    BY <1>2 DEF fbblock, h, w, blocks, e
  <2>6. todo = <<fb_init(0), w, h, w, switch_vscreen>> \o t
    <3>1. IsList(blocks) /\ IsList(e)
      BY <2>2, <2>3, HarmlessThen
    <3>. QED  BY <2>5, <3>1, FiveTurns
  <2>7. pre \in Seq(Wipes) /\ \A a \in Cells : \E j \in 1 .. Len(pre) : Covers(pre[j], a)
    <3>1. w \in Wipes /\ \A a \in Cells : Covers(w, a)
      BY AllIsWiped DEF w
    <3>2. pre \in Seq(Wipes) /\ Len(pre) = 1 /\ pre[1] = w
      BY <3>1
    <3>. HIDE DEF pre
    <3>. QED  BY <3>1, <3>2
  <2>8. todo = Then(fb_init(0), pre \o Then(h, r))
    <3>1. PICK p : p = t
      OBVIOUS
    <3>2. IsList(p) /\ todo = <<fb_init(0), w, h, w, switch_vscreen>> \o p
      BY <2>4, <2>6, <3>1
    <3>3. todo = Then(fb_init(0), Then(w, Then(h, Then(w, Then(switch_vscreen, p)))))
      BY <3>2, FiveByOne
    <3>4. todo = Then(fb_init(0), Then(w, Then(h, r)))
      BY <3>1, <3>3
    <3>. QED  BY <3>4 DEF Then
  <2>9. Starting(h, pre, r)
    BY <1>1, <2>4, <2>7, <2>8 DEF Starting
  <2>. QED  BY <2>1, <2>9 DEF FbInv
<1>3. CASE todo = fbflash
  <2> DEFINE w == wipe_allscreen(0)
             e == <<release_fb(0)>>
             pre == <<w>>
  <2>1. Flasher(Flash) /\ Harmless(e) /\ IsList(<<>>) /\ e = Then(release_fb(0), <<>>)
    BY Parts, Harmless1, HarmlessLists, HarmlessThen DEF Flasher
  <2>2. todo = <<fb_init(0), w, Flash, release_fb(0)>>
    BY <1>3 DEF fbflash, Flash
  <2>. HIDE DEF w, e
  <2>3. todo = Then(fb_init(0), Then(w, Then(Flash, e)))
    <3>1. todo = Then(fb_init(0), Then(w, Then(Flash, Then(release_fb(0), <<>>))))
      BY <2>2, FourAlone
    <3>. QED  BY <2>1, <3>1
  <2>4. pre \in Seq(Wipes) /\ \A a \in Cells : \E j \in 1 .. Len(pre) : Covers(pre[j], a)
    <3>1. w \in Wipes /\ \A a \in Cells : Covers(w, a)
      BY AllIsWiped DEF w
    <3>2. pre \in Seq(Wipes) /\ Len(pre) = 1 /\ pre[1] = w
      BY <3>1
    <3>. HIDE DEF pre
    <3>. QED  BY <3>1, <3>2
  <2>5. todo = Then(fb_init(0), pre \o Then(Flash, e))
    BY <2>3 DEF Then
  <2>6. Starting(Flash, pre, e)
    BY <1>1, <2>1, <2>4, <2>5 DEF Starting
  <2>. QED  BY <2>1, <2>6 DEF FbInv
<1>4. CASE todo = leftblock
  <2> DEFINE b == [Block EXCEPT !.xmin = 0, !.xmax = 1]
             h == draw_flash_block(b, make_color("green"), Steps)
             e == <<release_fb(0)>>
             pre == <<wipe_screen(0), wipe_oldscreen(0), wipe_screen0(0)>>
  <2>1. Flasher(h)
    <3>1. Steps \in Nat /\ Columns \in Nat /\ Fits(Block)
      BY DemosAssumption, FrambufferAssumption
    <3>2. /\ Block \in [xmin : Nat, xmax : Nat, ymin : Nat, ymax : Nat]
          /\ Block.xmin < Block.xmax /\ Block.ymin <= Block.ymax
          /\ Block.xmax + Steps - 1 <= Columns /\ Block.ymax < Rows
      BY <3>1 DEF Fits
    <3>3. /\ b \in [xmin : Nat, xmax : Nat, ymin : Nat, ymax : Nat]
          /\ b.xmin = 0 /\ b.xmax = 1 /\ b.ymin = Block.ymin /\ b.ymax = Block.ymax
      BY <3>2
    <3>4. 1 + Steps - 1 <= Columns
      <4>1. Block.xmin \in Nat /\ Block.xmax \in Nat
        BY <3>2
      <4>. QED  BY <3>1, <3>2, <4>1
    <3>5. Fits(b)
      BY <3>2, <3>3, <3>4 DEF Fits
    <3>. HIDE DEF b
    <3>. QED  BY <3>5 DEF Flasher, IsBlock, draw_flash_block
  <2>2. Harmless(e) /\ IsList(<<>>) /\ e = Then(release_fb(0), <<>>) /\ IsList(e)
    BY Parts, Harmless1, HarmlessLists, HarmlessThen
  <2>3. todo = <<fb_init(0), wipe_screen(0), wipe_oldscreen(0), wipe_screen0(0), h, release_fb(0)>>
    BY <1>4 DEF leftblock
  <2>. HIDE DEF h, e
  <2>4. todo = Then(fb_init(0), pre \o Then(h, e))
    <3>1. todo = Then(fb_init(0), Then(wipe_screen(0), Then(wipe_oldscreen(0), Then(wipe_screen0(0), Then(h, e)))))
      BY <2>2, <2>3, SixByOne
    <3>2. IsList(Then(h, e))
      BY <2>2, ThenIs
    <3>3. pre \o Then(h, e) = Then(wipe_screen(0), Then(wipe_oldscreen(0), Then(wipe_screen0(0), Then(h, e))))
      BY <3>2, ThreeByOne
    <3>. QED  BY <3>1, <3>3
  <2>5. pre \in Seq(Wipes) /\ \A a \in Cells : \E j \in 1 .. Len(pre) : Covers(pre[j], a)
    <3>1. /\ wipe_screen(0) \in Wipes /\ wipe_oldscreen(0) \in Wipes /\ wipe_screen0(0) \in Wipes
          /\ \A a \in Half(1) : Covers(wipe_oldscreen(0), a)
          /\ \A a \in Half(0) : Covers(wipe_screen0(0), a)
      BY HalvesAreWiped DEF Wipes
    <3>2. pre \in Seq(Wipes) /\ Len(pre) = 3 /\ pre[2] = wipe_oldscreen(0) /\ pre[3] = wipe_screen0(0)
      BY <3>1
    <3>. HIDE DEF pre
    <3>3. \A a \in Cells : Covers(pre[2], a) \/ Covers(pre[3], a)
      BY <3>1, <3>2, CellsAreHalves
    <3>4. 2 \in 1 .. Len(pre) /\ 3 \in 1 .. Len(pre)
      BY <3>2
    <3>. QED  BY <3>2, <3>3, <3>4
  <2>6. Starting(h, pre, e)
    BY <1>1, <2>2, <2>4, <2>5 DEF Starting
  <2>. QED  BY <2>1, <2>6 DEF FbInv
<1>5. CASE todo = fbrun
  <2>1. PICK a, b, c, d, e, f : /\ todo = <<a, b, c, d, e, f>> /\ Loose(a) /\ Loose(b) /\ Loose(c)
                                /\ Loose(d) /\ Loose(e) /\ Loose(f)
    BY <1>5, Parts DEF fbrun
  <2>2. PICK v : v = {a, b, c, d, e, f}
    OBVIOUS
  <2>3. todo \in Seq(v) /\ \A x \in v : Loose(x)
    BY <2>1, <2>2
  <2>4. Harmless(todo)
    BY <2>3 DEF Harmless
  <2>. QED  BY <1>1, <2>4 DEF FbInv
<1>6. CASE todo = fbclean
  <2>1. PICK a, b, c : todo = <<a, b, c>> /\ Loose(a) /\ Loose(b) /\ Loose(c)
    BY <1>6, Parts DEF fbclean
  <2>2. PICK v : v = {a, b, c}
    OBVIOUS
  <2>3. todo \in Seq(v) /\ \A x \in v : Loose(x)
    BY <2>1, <2>2
  <2>4. Harmless(todo)
    BY <2>3 DEF Harmless
  <2>. QED  BY <1>1, <2>4 DEF FbInv
<1>7. CASE todo = fbbmp
  <2> DEFINE a == <<fb_init(0)>>
             b == [k \in 1 .. 2 * Len(Pictures) |->
                     IF k % 2 = 1 THEN wipe_allscreen(0) ELSE draw_BMP(Pictures[k \div 2], Bias, Bias)]
             c == <<release_fb(0)>>
  <2>1. Harmless(a) /\ Harmless(c)
    BY Parts, Harmless1
  <2>2. Harmless(b)
    <3>1. 2 * Len(Pictures) \in Nat
      BY DemosAssumption
    <3>2. \A k \in 1 .. 2 * Len(Pictures) : Loose(b[k])
      BY Parts
    <3>3. DOMAIN b = 1 .. 2 * Len(Pictures) /\ b = [k \in 1 .. 2 * Len(Pictures) |-> b[k]]
      OBVIOUS
    <3>. HIDE DEF b
    <3>. QED  BY <3>1, <3>2, <3>3, HarmlessLists
  <2>3. todo = (a \o b) \o c
    BY <1>7 DEF fbbmp
  <2>. HIDE DEF a, b, c
  <2>4. Harmless(todo)
    BY <2>1, <2>2, <2>3, HarmlessLists
  <2>. QED  BY <1>1, <2>4 DEF FbInv
<1>8. CASE todo = fb2block
  <2> DEFINE a == [k \in 1 .. 3 |-> fb_init(k - 1)]
             b == [k \in 1 .. 3 |-> wipe_allscreen(k - 1)]
             c == <<Full(0, "red"), Full(1, "blue"), Full(2, "violet"), Full(0, "black"),
                    Full(0, "red"), Full(2, "white"), Full(0, "black"), Full(1, "black"),
                    Full(2, "black"), Full(0, "violet"), Full(1, "white"), Full(2, "white")>>
             d == [k \in 1 .. 3 |-> release_fb(k - 1)]
  <2>1. Harmless(a)
    <3>1. DOMAIN a = 1 .. 3 /\ a = [k \in 1 .. 3 |-> a[k]] /\ \A k \in 1 .. 3 : Loose(a[k])
      BY Parts
    <3>. HIDE DEF a
    <3>. QED  BY <3>1, HarmlessLists
  <2>2. Harmless(b)
    <3>1. DOMAIN b = 1 .. 3 /\ b = [k \in 1 .. 3 |-> b[k]] /\ \A k \in 1 .. 3 : Loose(b[k])
      BY Parts
    <3>. HIDE DEF b
    <3>. QED  BY <3>1, HarmlessLists
  <2>3. Harmless(d)
    <3>1. DOMAIN d = 1 .. 3 /\ d = [k \in 1 .. 3 |-> d[k]] /\ \A k \in 1 .. 3 : Loose(d[k])
      BY Parts
    <3>. HIDE DEF d
    <3>. QED  BY <3>1, HarmlessLists
  <2>4. Harmless(c)
    <3> DEFINE names == {"red", "blue", "violet", "black", "white"}
               v == {Full(k, name) : k \in 0 .. 2, name \in names}
    <3>1. \A k \in 0 .. 2, name \in names : Full(k, name) \in v
      OBVIOUS
    <3>2. \A x \in v : Loose(x)
      BY Parts
    <3>. HIDE DEF v
    <3>3. c \in Seq(v)
      BY <3>1
    <3>. HIDE DEF c
    <3>. QED  BY <3>3, <3>2 DEF Harmless
  <2>5. todo = ((a \o b) \o c) \o d
    BY <1>8 DEF fb2block
  <2>. HIDE DEF a, b, c, d
  <2>6. Harmless(todo)
    BY <2>1, <2>2, <2>3, <2>4, <2>5, HarmlessLists
  <2>. QED  BY <1>1, <2>6 DEF FbInv
<1>. QED  BY <1>2, <1>3, <1>4, <1>5, <1>6, <1>7, <1>8 DEF FbInit, Demos

-----------------------------------------------------------------------------
\* The invariant of the demonstrations: the program is in one of the phases of
\* draw_flash_block or draw_flash_BMP, or on its way to them, or nothing is
\* claimed of what is left to call.
THEOREM FbInvariant == FbSpec => []FbInv
<1>1. FbInit => FbInv
  BY InitHolds
<1>2. FbInv /\ [FbNext]_fbvars => FbInv'
  BY FbInvStep
<1>. QED  BY <1>1, <1>2, PTL DEF FbSpec

\* draw_flash_block shows whole blocks only, on a screen of any size, with a block
\* of any size that runs over it for any number of steps (frambuffer.c).
THEOREM FlashingIsWhole == FbSpec => []BlockIsWhole
<1>1. FbInv => BlockIsWhole
  BY FbInvIsWhole
<1>. QED  BY <1>1, FbInvariant, PTL

\* draw_flash_BMP shows each picture of 32 bits, and each of 24 bits whose rows end in
\* padding, whole and upright until the next is ready, whatever sizes, depths and
\* orders of rows follow one another (frambuffer.c).  Nothing is said of a picture
\* of 24 bits whose rows need no padding, which the code draws aslant.
THEOREM PicturesAreWhole == FbSpec => []PictureIsWhole
<1>1. FbInv => PictureIsWhole
  BY FbInvIsWhole
<1>. QED  BY <1>1, FbInvariant, PTL
=============================================================================
