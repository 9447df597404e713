------------------------------ MODULE FbDemos ------------------------------
(***************************************************************************)
(* The demonstration programs of frambuffer/: fbblock, fbflash, fbrun,     *)
(* fbclean, fbbmp and fb2block, each the list of its calls, with the       *)
(* coordinates of a small screen.                                          *)
(***************************************************************************)
EXTENDS Frambuffer

CONSTANTS
  Block,     \* draw_flash_block's block in fbblock
  Steps,     \* and its steps
  Run,       \* how far the block of fbblock's second loop runs
  Pictures,  \* the pictures of fbflash and fbbmp
  Bias       \* where they are drawn

\* a block that stays on the screen while it runs, and pictures that are on it
Fits(b) == /\ b \in [xmin : Nat, xmax : Nat, ymin : Nat, ymax : Nat]
           /\ b.xmin < b.xmax /\ b.ymin <= b.ymax
           /\ b.xmax + Steps - 1 <= Columns /\ b.ymax < Rows
OnScreen(p) == /\ p.width \in Nat \ {0} /\ p.height \in Int /\ p.bits \in Nat
               /\ Bias + p.width <= Columns /\ Bias + Height(p) <= Rows

ASSUME DemosAssumption ==
  /\ Steps \in Nat \ {0, 1} /\ Run \in Nat /\ Bias \in Nat /\ Fits(Block)
  /\ Pictures # <<>> /\ DOMAIN Pictures = 1 .. Len(Pictures) /\ Len(Pictures) \in Nat
  /\ \A i \in DOMAIN Pictures : OnScreen(Pictures[i])

Full(b, name) == Paint(b, draw_sblock(0, Columns, 0, Rows, make_color(name)))

fbblock ==
  <<fb_init(0), wipe_allscreen(0), draw_flash_block(Block, make_color("green"), Steps),
    wipe_allscreen(0), switch_vscreen>>
  \o [k \in 1 .. 2 * Run |->
        IF k % 2 = 0 THEN wipe_allscreen(0)
        ELSE LET x == k \div 2
             IN Paint(0, draw_block(Block.xmin + x, Block.xmax + x, Block.ymin, Block.ymax,
                                    make_color("green")))]
  \o <<release_fb(0)>>

fbflash ==
  <<fb_init(0), wipe_allscreen(0), draw_flash_BMP(Pictures, Bias, Bias), release_fb(0)>>

fbrun ==
  <<fb_init(0), wipe_allscreen(0),
    Paint(0, draw_line(1, Columns - 1, 1, Rows - 1, make_color("green"))),
    Paint(0, draw_func(func_line, 0, Rows, make_color("red"), 0, 0)),
    Paint(0, draw_func(func_parabola, 0, 2, make_color("blue"), 1, 1)),
    release_fb(0)>>

fbclean == <<fb_init(0), wipe_allscreen(0), release_fb(0)>>

fbbmp ==
  <<fb_init(0)>>
  \o [k \in 1 .. 2 * Len(Pictures) |->
        IF k % 2 = 1 THEN wipe_allscreen(0) ELSE draw_BMP(Pictures[k \div 2], Bias, Bias)]
  \o <<release_fb(0)>>

\* the colours of the three layers, one after another
fb2block ==
  [k \in 1 .. 3 |-> fb_init(k - 1)] \o [k \in 1 .. 3 |-> wipe_allscreen(k - 1)]
  \o <<Full(0, "red"), Full(1, "blue"), Full(2, "violet"), Full(0, "black"),
       Full(0, "red"), Full(2, "white"), Full(0, "black"), Full(1, "black"),
       Full(2, "black"), Full(0, "violet"), Full(1, "white"), Full(2, "white")>>
  \o [k \in 1 .. 3 |-> release_fb(k - 1)]

\* what the demonstrations do not use: a block from the left edge, and the
\* screens wiped one at a time
leftblock ==
  <<fb_init(0), wipe_screen(0), wipe_oldscreen(0), wipe_screen0(0),
    draw_flash_block([Block EXCEPT !.xmin = 0, !.xmax = 1], make_color("green"), Steps),
    release_fb(0)>>

Demos == {fbblock, fbflash, fbrun, fbclean, fbbmp, fb2block, leftblock}

\* another program left its picture, and either screen on the panel
FbInit ==
  /\ memory = [b \in 0 .. 2 |-> [a \in Cells |-> make_color("before")]]
  /\ mapped = {} /\ yoffset \in {0, Rows} /\ SCREEN_USING = V_SCREEN0
  /\ todo \in Demos

FbSpec == FbInit /\ [][FbNext]_fbvars
=============================================================================
