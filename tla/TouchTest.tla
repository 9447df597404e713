----------------------------- MODULE TouchTest -----------------------------
(***************************************************************************)
(* The touch test, touchscreen/ts_main.c, over the pixels of fbconfig.c:   *)
(* a crosshair drawn in exclusive-or mode around every read, three modes   *)
(* (drag, draw, bmp) chosen by buttons, and lines or a square that follow  *)
(* the pen.  The screen is scaled down: a button, and the gap in the       *)
(* crosshair's arms, is one pixel; the square is Side + 1 pixels wide.     *)
(***************************************************************************)
EXTENDS Integers, FiniteSets

CONSTANTS
  Xres, Yres,    \* the visible screen
  YresVirtual,   \* rows of the frame buffer, the visible ones included
  ButtonAt,      \* [buttons -> pixels]
  Text,          \* pixels of "Touch screen to move crosshair"
  Points,        \* where the pen may be
  Side           \* 30 in the code

Drag == "drag"
Draw == "draw"
Bmp == "bmp"
Quit == "quit"
Buttons == {Drag, Draw, Bmp, Quit}

Pixels  == (0 .. Xres - 1) \X (0 .. YresVirtual - 1)
Visible == (0 .. Xres - 1) \X (0 .. Yres - 1)

ASSUME TouchTestAssumption ==
  /\ Xres \in Nat \ {0} /\ Yres \in Nat \ {0} /\ Side \in Nat
  /\ YresVirtual \in Nat /\ Yres <= YresVirtual
  /\ ButtonAt \in [Buttons -> Visible] /\ Text \subseteq Visible
  /\ \A b, c \in Buttons : ButtonAt[b] = ButtonAt[c] => b = c
  /\ Points \subseteq Visible

VARIABLES
  pc,      \* "top" of the loop, "reading", or "left"
  screen,  \* colour and transparency bits of each pixel
  back,    \* history: the same without any crosshair ever drawn
  low,     \* mode & 15, by the name of the button that sets it
  top,     \* mode & 0x80000000
  at,      \* x and y
  old,     \* oldx and oldy
  active   \* the buttons with BUTTON_ACTIVE

vars == <<pc, screen, back, low, top, at, old, active>>

-----------------------------------------------------------------------------
\* colours are sets of colour bits, so that exclusive-or is what it is
Bits == {"hi", "lo"}
colormap == [i \in 0 .. 5 |-> CASE i \in {0}    -> {}
                                [] i \in {1, 5} -> {"hi"}
                                [] i \in {2}    -> Bits
                                [] i \in {3, 4} -> {"lo"}]
Xor(a, b) == (a \ b) \cup (b \ a)

\* __setpixel ends with "|= transp_mask" in both modes
Set(scr, S, idx) ==
  [p \in Pixels |-> IF p \in S THEN [rgb |-> colormap[idx], transp |-> TRUE]
                    ELSE scr[p]]
SetXor(scr, S, idx) ==
  [p \in Pixels |-> IF p \in S THEN [rgb |-> Xor(scr[p].rgb, colormap[idx]),
                                     transp |-> TRUE]
                    ELSE scr[p]]

\* fillrect: the corners are moved onto the screen, then all between is set
Clip(n, size) == IF n < 0 THEN 0 ELSE IF n >= size THEN size - 1 ELSE n
Rectangle(p, q) == (Clip(p[1], Xres) .. Clip(q[1], Xres))
                     \X (Clip(p[2], Yres) .. Clip(q[2], Yres))

Abs(n) == IF n < 0 THEN -n ELSE n
\* division in C, and the slope of line() in 16.16 fixed point
Quotient(n, d) == IF n < 0 THEN -((-n) \div d) ELSE n \div d
Slope(dn, d) == IF d = 0 THEN 0 ELSE Quotient(dn * 65536, d)

\* the second coordinate, k pixels along the first, as the shifts compute it
Along(n, dn, d, k) == (n * 65536 + k * Slope(dn, d)) \div 65536

\* line(): from the end with the smaller coordinate along the longer side
LineFrom(p, q) ==
  LET dx == q[1] - p[1]
      dy == q[2] - p[2]
  IN IF Abs(dx) < Abs(dy)
     THEN {<<Along(p[1], dx, dy, k), p[2] + k>> : k \in 0 .. dy}
     ELSE {<<p[1] + k, Along(p[2], dy, dx, k)>> : k \in 0 .. dx}
Line(p, q) ==
  IF \/ Abs(q[1] - p[1]) < Abs(q[2] - p[2]) /\ p[2] > q[2]
     \/ Abs(q[1] - p[1]) >= Abs(q[2] - p[2]) /\ p[1] > q[1]
  THEN LineFrom(q, p) ELSE LineFrom(p, q)

\* put_cross in exclusive-or mode, cut off by pixel() at the frame buffer's edge
Arms(p) == {<<p[1] + 1, p[2]>>, <<p[1] - 1, p[2]>>, <<p[1], p[2] + 1>>, <<p[1], p[2] - 1>>}
Corners(p) == {<<p[1] + i, p[2] + j>> : i \in {-1, 1}, j \in {-1, 1}}
PutCross(scr, p) == SetXor(SetXor(scr, Arms(p) \cap Pixels, 2), Corners(p) \cap Pixels, 3)

DrawButtons(scr, B, act) ==
  Set(Set(scr, {ButtonAt[b] : b \in B \ act}, 4), {ButtonAt[b] : b \in B \cap act}, 5)

\* refresh_screen
RefreshScreen(scr, act) ==
  DrawButtons(Set(Set(scr, Visible, 0), Text, 2), Buttons, act)

-----------------------------------------------------------------------------
Blank == [p \in Pixels |-> [rgb |-> {}, transp |-> FALSE]]

Centre == <<Xres \div 2, Yres \div 2>>

Init ==
  /\ pc = "top" /\ low = Drag /\ top = FALSE /\ active = {}
  /\ at = Centre /\ old = <<0, 0>>
  /\ screen = RefreshScreen(Blank, {})
  /\ back = screen

\* the cross is on the screen while ts_read blocks, but not in draw mode
Crossed(scr, m) == IF m = Draw THEN scr ELSE PutCross(scr, at)

Show ==
  /\ pc = "top"
  /\ pc' = "reading" /\ screen' = Crossed(screen, low)
  /\ UNCHANGED <<back, low, top, at, old, active>>

\* button_handle for all buttons: which are active, and what is drawn
Touched(pos, down) == IF down THEN {b \in Buttons : ButtonAt[b] = pos} ELSE {}
AfterButtons(scr, act, fired) ==
  LET drawn == DrawButtons(scr, (act \ active) \cup (active \ act), act)
  IN IF fired \subseteq {Quit} THEN drawn ELSE RefreshScreen(drawn, act)

\* Mutant: the square's old place is not cleared.
SquareStays(scr, pos, act) ==
  Set(DrawButtons(Set(scr, Text, 2), Buttons, act),
      Rectangle(pos, <<pos[1] + Side, pos[2] + Side>>), 1)

\* the square is moved from old to pos
Square(scr, pos, act) ==
  Set(DrawButtons(Set(Set(scr, Rectangle(old, <<old[1] + Side, old[2] + Side>>), 0),
                      Text, 2), Buttons, act),
      Rectangle(pos, <<pos[1] + Side, pos[2] + Side>>), 1)

\* all that one iteration draws once the cross is hidden
Drawn(scr, pos, down, fired) ==
  LET act  == Touched(pos, down)
      mode == IF fired \subseteq {Quit} THEN low ELSE CHOOSE b \in fired : TRUE
      scr1 == AfterButtons(scr, act, fired)
  IN IF down THEN IF mode = Draw /\ top THEN Set(scr1, Line(at, pos) \cap Pixels, 2)
                  ELSE scr1
     ELSE IF mode = Bmp THEN Square(scr1, pos, act) ELSE scr1

\* Mutant: the cross is hidden where the pen is now.
HideThere(pos) == IF low = Draw THEN screen ELSE PutCross(screen, pos)

\* the cross is drawn once more
Hide(pos) == Crossed(screen, low)

\* ts_read returned one sample
Sample(pos, down) ==
  LET fired == IF down THEN {} ELSE active
  IN /\ pc = "reading"
     /\ screen' = Drawn(Hide(pos), pos, down, fired)
     /\ back' = Drawn(back, pos, down, fired)
     /\ active' = Touched(pos, down)
     /\ \/ fired \subseteq {Quit} /\ low' = low
        \/ fired # {Quit} /\ low' \in fired
     /\ top' = down
     /\ at' = IF down THEN pos ELSE at
     /\ old' = IF ~down /\ low' = Bmp THEN pos ELSE old
     /\ pc' = IF Quit \in fired THEN "left" ELSE "top"

\* ts_read returned no sample
NoSample ==
  /\ pc = "reading"
  /\ pc' = "top" /\ screen' = Hide(at)
  /\ UNCHANGED <<back, low, top, at, old, active>>

\* ts_read failed
Fail ==
  /\ pc = "reading"
  /\ pc' = "left" /\ screen' = Hide(at)
  /\ UNCHANGED <<back, low, top, at, old, active>>

Next == \/ Show \/ NoSample \/ Fail
        \/ \E pos \in Points, down \in BOOLEAN : Sample(pos, down)

Spec == Init /\ [][Next]_vars

-----------------------------------------------------------------------------
(***************************************************************************)
(* Whatever is drawn, and whichever mode a button sets in between, nothing *)
(* of a crosshair stays behind: outside ts_read the visible screen is as   *)
(* if none had ever been drawn, and inside there is exactly one.           *)
(***************************************************************************)
CrossLeavesNothing ==
  LET shown == IF pc = "reading" THEN Crossed(back, low) ELSE back
  IN \A p \in Visible : screen[p] = shown[p]

(***************************************************************************)
(* In bmp mode there is one square, where the pen last left the screen:    *)
(* no older one, no stroke of the draw mode and nothing erased around it.  *)
(***************************************************************************)
OneSquare ==
  low = Bmp => \A p \in Visible \ {ButtonAt[b] : b \in Buttons} :
    back[p].rgb = IF p \in Rectangle(old, <<old[1] + Side, old[2] + Side>>) THEN colormap[1]
                  ELSE IF p \in Text THEN colormap[2] ELSE colormap[0]
=============================================================================
