----------------------------- MODULE Frambuffer -----------------------------
(***************************************************************************)
(* frambuffer/frambuffer.c: drawing into mapped frame buffers of two       *)
(* screens each, one shown and one behind it.  A program is the sequence   *)
(* of its calls; a call that draws is a sequence of points, and the panel  *)
(* shows whatever is in memory between any two of them.                    *)
(***************************************************************************)
EXTENDS Integers, Sequences, FiniteSets

CONSTANTS
  Columns, Rows,  \* xres and yres
  Left            \* what a local that was never set may hold

ASSUME FrambufferAssumption ==
  Columns \in Nat \ {0} /\ Rows \in Nat \ {0} /\ Left \subseteq Int

VARIABLES
  memory,        \* the cells of /dev/fb0, fb1 and fb2
  mapped,        \* those this program has mapped
  yoffset,       \* the first line of fb0 on the panel
  SCREEN_USING,
  todo           \* the calls still to make, the one being made first

fbvars == <<memory, mapped, yoffset, SCREEN_USING, todo>>

V_SCREEN0 == 0
V_SCREEN1 == 1
screen0size == Columns * Rows
screensize == 2 * screen0size
Cells == 0 .. screensize - 1

\* a colour, or a pixel of a picture by its row in the file and its column
make_color(name) == <<name, 0, 0>>
Black == make_color("black")

-----------------------------------------------------------------------------
\* calls
fb_init(b)    == [op |-> "map", buff |-> b]
release_fb(b) == [op |-> "unmap", buff |-> b]
switch_vscreen == [op |-> "switch"]
Paint(b, points) == [op |-> "paint", buff |-> b, points |-> points]

draw_point(x, y, color) == <<y * Columns + x, color>>

\* memset of n cells; which screen is known when the call is made
Wipe(from, n) == [k \in 1 .. n |-> <<from + k - 1, Black>>]
wipe_allscreen(b)  == Paint(b, Wipe(0, screensize))
wipe_screen0(b)    == Paint(b, Wipe(0, screen0size))
wipe_screen(b)     == [op |-> "wipe", buff |-> b, old |-> FALSE]
wipe_oldscreen(b)  == [op |-> "wipe", buff |-> b, old |-> TRUE]

Least(m, n) == IF m < n THEN m ELSE n
Most(m, n)  == IF m > n THEN m ELSE n
y_axis_trans(y) == Rows - 1 - y

\* a function of the column, up to, not including, the larger end
draw_func(f, xmin, xmax, color, x0, y0) ==
  [k \in 1 .. Most(xmin, xmax) - Least(xmin, xmax) |->
     LET x == Least(xmin, xmax) + k - 1
     IN draw_point(x + x0, y_axis_trans(f[x] + y0), color)]
func_line == [x \in 0 .. Columns |-> x]
func_parabola == [x \in 0 .. Columns |-> x * x]

\* each pair of ends is ordered by itself, so every line rises
draw_line(xmin, xmax, ymin, ymax, color) ==
  LET x0 == Least(xmin, xmax)
      n  == Most(xmin, xmax) - x0
      dy == Most(ymin, ymax) - Least(ymin, ymax)
  IN [k \in 1 .. n |->
        draw_point(x0 + k - 1, Least(ymin, ymax) + ((dy * (k - 1)) \div n), color)]

\* rows ymax down to ymin + 1: the block is one lower than draw_sblock's
draw_block(xmin, xmax, ymin, ymax, color) ==
  LET n == Most(xmin, xmax) - Least(xmin, xmax)
  IN [k \in 1 .. n * (Most(ymin, ymax) - Least(ymin, ymax)) |->
        draw_point(Least(xmin, xmax) + ((k - 1) % n),
                   Most(ymin, ymax) - ((k - 1) \div n), color)]
draw_sblock(xmin, xmax, ymin, ymax, color) ==
  LET n == Most(xmin, xmax) - Least(xmin, xmax)
  IN [k \in 1 .. n * (Most(ymin, ymax) - Least(ymin, ymax)) |->
        draw_point(Least(xmin, xmax) + ((k - 1) % n),
                   Least(ymin, ymax) + ((k - 1) \div n), color)]
draw_vblock(xmin, xmax, ymin, ymax, color, screen) ==
  draw_block(xmin, xmax, ymin + screen * Rows, ymax + screen * Rows, color)

draw_flash_block(block, color, steps) ==
  [op |-> "flash_block", block |-> block, color |-> color, steps |-> steps]
draw_flash_BMP(pictures, xbias, ybias) ==
  [op |-> "flash_BMP", pictures |-> pictures, xbias |-> xbias, ybias |-> ybias]
draw_BMP(picture, xbias, ybias) ==
  [op |-> "BMP", picture |-> picture, xbias |-> xbias, ybias |-> ybias]

-----------------------------------------------------------------------------
\* a picture: its name, BitCount, Width, Height, and whether the file is
\* "whole", "missing", or "short" of its headers or its pixels' place
Height(p) == IF p.height < 0 THEN -p.height ELSE p.height
Bytes(p)  == p.bits \div 8
Stride(p) == ((p.width * Bytes(p) + 3) \div 4) * 4  \* of the file format

\* what fread gets pos bytes behind f_Offset
ColorAt(p, pos) ==
  LET q == pos % Stride(p)
  IN IF pos \div Stride(p) < Height(p) /\ q % Bytes(p) = 0 /\ q \div Bytes(p) < p.width
     THEN <<p.name, pos \div Stride(p), q \div Bytes(p)>>
     ELSE <<p.name, -1, -1>>

\* Mutant: a width that needs four bytes of padding gets none.
width_offset_none(p) == 0

\* as computed, four bytes where the format has none
width_offset(p) ==
  IF p.bits = 24 THEN ((p.width * 3) \div 4) * 4 + 4 - p.width * 3 ELSE 0

\* draw_BMP_24 and draw_BMP_32: rows as in the file, the last one first
\* unless Height is negative; nothing for another BitCount
BMPPoints(p, xbias, ybias) ==
  [k \in 1 .. (IF p.bits \in {24, 32} THEN p.width * Height(p) ELSE 0) |->
     LET row == (k - 1) \div p.width
         col == (k - 1) % p.width
     IN draw_point(xbias + col,
                   ybias + (IF p.height > 0 THEN p.height - 1 - row ELSE row),
                   ColorAt(p, row * (p.width * Bytes(p) + width_offset(p)) + col * Bytes(p)))]
draw_vBMP(p, xbias, ybias, screen) == draw_BMP(p, xbias, ybias + screen * Rows)

-----------------------------------------------------------------------------
Call(op) == todo # <<>> /\ Head(todo).op = op
Becomes(calls) == todo' = calls \o Tail(todo)

\* fb_init puts the first screen on the panel; the others stay as they are
Map ==
  /\ Call("map")
  /\ mapped' = mapped \cup {Head(todo).buff}
  /\ IF Head(todo).buff = 0 THEN yoffset' = 0 /\ SCREEN_USING' = V_SCREEN0
     ELSE UNCHANGED <<yoffset, SCREEN_USING>>
  /\ Becomes(<<>>) /\ UNCHANGED memory

Unmap ==
  /\ Call("unmap")
  /\ mapped' = mapped \ {Head(todo).buff}
  /\ Becomes(<<>>) /\ UNCHANGED <<memory, yoffset, SCREEN_USING>>

\* draw_point; a write outside what is mapped ends the program
DrawPoint ==
  /\ Call("paint") /\ Head(todo).points # <<>>
  /\ LET b == Head(todo).buff
         p == Head(Head(todo).points)
     IN IF b \in mapped /\ p[1] \in Cells
        THEN /\ memory' = [memory EXCEPT ![b][p[1]] = p[2]]
             /\ Becomes(<<[Head(todo) EXCEPT !.points = Tail(@)]>>)
        ELSE todo' = <<>> /\ UNCHANGED memory
  /\ UNCHANGED <<mapped, yoffset, SCREEN_USING>>
Drawn0 ==
  /\ Call("paint") /\ Head(todo).points = <<>>
  /\ Becomes(<<>>) /\ UNCHANGED <<memory, mapped, yoffset, SCREEN_USING>>

WipeOne ==
  /\ Call("wipe")
  /\ LET screen == IF Head(todo).old THEN V_SCREEN1 - SCREEN_USING ELSE SCREEN_USING
     IN Becomes(<<Paint(Head(todo).buff, Wipe(screen * screen0size, screen0size))>>)
  /\ UNCHANGED <<memory, mapped, yoffset, SCREEN_USING>>

Switch ==
  /\ Call("switch")
  /\ yoffset' = IF SCREEN_USING = V_SCREEN0 THEN Rows ELSE 0
  /\ SCREEN_USING' = 1 - SCREEN_USING
  /\ Becomes(<<>>) /\ UNCHANGED <<memory, mapped>>

\* the loop of draw_flash_block before its frame i
Frame(c, i, left) == [op |-> "frame", call |-> c, i |-> i, left |-> left]
BlockAt(c, i, color, screen) ==
  Paint(0, draw_vblock(c.block.xmin + i, c.block.xmax + i, c.block.ymin, c.block.ymax,
                       color, screen))

\* a block at the left edge takes its second place from an i never set
FlashBlock ==
  /\ Call("flash_block")
  /\ LET c == Head(todo)
         first == BlockAt(c, 0, c.color, SCREEN_USING)
     IN IF c.block.xmin = 0 /\ c.steps >= 1
        THEN \E i \in Left :
               Becomes(<<first, BlockAt(c, i, c.color, V_SCREEN1 - SCREEN_USING),
                         switch_vscreen, Frame(c, 2, i)>>)
        ELSE Becomes(<<first, Frame(c, 1, 1)>>)
  /\ UNCHANGED <<memory, mapped, yoffset, SCREEN_USING>>

\* Mutant: each frame erases the place before its own, as with one screen.
EraseLast(c, i) == BlockAt(c, i - 1, Black, V_SCREEN1 - SCREEN_USING)

\* the screen behind was last drawn two frames ago
Erase(c, i) == BlockAt(c, i - 2, Black, V_SCREEN1 - SCREEN_USING)

FlashBlockFrame ==
  /\ Call("frame")
  /\ LET f == Head(todo)
     IN IF f.i < f.call.steps
        THEN Becomes(<<Erase(f.call, f.i),
                       BlockAt(f.call, f.i, f.call.color, V_SCREEN1 - SCREEN_USING),
                       switch_vscreen, [f EXCEPT !.i = @ + 1]>>)
        ELSE Becomes(<<>>)
  /\ UNCHANGED <<memory, mapped, yoffset, SCREEN_USING>>

\* a file that cannot be opened or read leaves the screen as it was
DrawBMP ==
  /\ Call("BMP")
  /\ LET c == Head(todo)
     IN IF c.picture.file = "whole"
        THEN Becomes(<<Paint(0, BMPPoints(c.picture, c.xbias, c.ybias))>>)
        ELSE Becomes(<<>>)
  /\ UNCHANGED <<memory, mapped, yoffset, SCREEN_USING>>

Turn(c, i) == [op |-> "turn", call |-> c, i |-> i]
PictureOf(c, i, screen) == draw_vBMP(c.pictures[i + 1], c.xbias, c.ybias, screen)

FlashBMP ==
  /\ Call("flash_BMP")
  /\ Becomes(<<PictureOf(Head(todo), 0, SCREEN_USING), Turn(Head(todo), 1)>>)
  /\ UNCHANGED <<memory, mapped, yoffset, SCREEN_USING>>

FlashBMPFrame ==
  /\ Call("turn")
  /\ LET f == Head(todo)
     IN IF f.i < Len(f.call.pictures)
        THEN Becomes(<<PictureOf(f.call, f.i, V_SCREEN1 - SCREEN_USING),
                       switch_vscreen, [f EXCEPT !.i = @ + 1]>>)
        ELSE Becomes(<<>>)
  /\ UNCHANGED <<memory, mapped, yoffset, SCREEN_USING>>

FbNext == \/ Map \/ Unmap \/ DrawPoint \/ Drawn0 \/ WipeOne \/ Switch
          \/ FlashBlock \/ FlashBlockFrame \/ DrawBMP \/ FlashBMP \/ FlashBMPFrame

-----------------------------------------------------------------------------
Shown(row, col) == memory[0][(yoffset + row) * Columns + col]

\* a call of the list that waits for its turn, its first drawing done
Waits(k, op, first) ==
  /\ k \in DOMAIN todo /\ todo[k].op = op /\ (k = 1 \/ todo[k].i > first)
\* frames drawn or being drawn but not switched to
Hidden(k) == Cardinality({j \in 1 .. k - 1 : todo[j].op = "switch"})

(***************************************************************************)
(* From its first drawing on, draw_flash_block never shows anything but    *)
(* one whole block in the place of the last frame switched to, while the   *)
(* next is drawn pixel by pixel behind it; a block at the left edge only   *)
(* if the i that was never set happens to be 1.                            *)
(***************************************************************************)
BlockIsWhole ==
  \A k \in DOMAIN todo :
    /\ Waits(k, "frame", IF todo[k].call.block.xmin = 0 THEN 2 ELSE 1)
    /\ todo[k].left = 1
    => LET f == todo[k]
           x == f.i - 1 - Hidden(k)
       IN \A row \in 0 .. Rows - 1, col \in 0 .. Columns - 1 :
            Shown(row, col) =
              IF /\ row > f.call.block.ymin /\ row <= f.call.block.ymax
                 /\ col >= f.call.block.xmin + x /\ col < f.call.block.xmax + x
              THEN f.call.color ELSE Black

(***************************************************************************)
(* draw_flash_BMP shows each picture it could read whole and upright until *)
(* it has the next one ready, with rows in either order: those of 32 bits, *)
(* and those of 24 bits whose rows end in padding.  Excepted, because the  *)
(* code gets them wrong, are pictures of 24 bits whose rows fill a multiple*)
(* of four bytes: width_offset skips four bytes too many, and they come out*)
(* aslant.                                                                 *)
(***************************************************************************)
PictureIsWhole ==
  \A k \in DOMAIN todo :
    Waits(k, "turn", 1) =>
      LET c == todo[k].call
          p == c.pictures[todo[k].i - Hidden(k)]
      IN /\ p.file = "whole" /\ p.bits \in {24, 32}
         /\ p.bits = 24 => Stride(p) # p.width * 3
         =>
           \A row \in 0 .. Height(p) - 1, col \in 0 .. p.width - 1 :
             Shown(c.ybias + row, c.xbias + col) =
               <<p.name, IF p.height > 0 THEN p.height - 1 - row ELSE row, col>>
=============================================================================
