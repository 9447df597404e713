------------------------------- MODULE PopGame -------------------------------
(***************************************************************************)
(* touchscreen/pop.c: the pair-matching game played on the touch screen.   *)
(* One step of the model is one iteration of the while loop in main(): a   *)
(* sample is read from tslib, the buttons handle it, and when the finger   *)
(* leaves the screen the block under the averaged position is pressed.     *)
(*                                                                         *)
(* A block's coordinates are always recomputed from its index (in          *)
(* register_block and in change_map), so they are a function of the index. *)
(* The two picture paths a block owns travel with it; they are named by    *)
(* the index the block was registered with, its card.                      *)
(***************************************************************************)
EXTENDS Integers, FiniteSets

CONSTANTS XN, YN,         \* X_BLOCK_NUMBER, Y_BLOCK_NUMBER
          XOff, YOff,     \* x_offset, y_offset
          BLen, BHgt,     \* block_length, block_height
          ButtonRect,     \* where each of the three buttons is
          Points,         \* the coordinates a sample can have
          Centre          \* the position main() starts with

N == XN * YN
Pos == 0 .. (N - 1)
Buttons == {"restart", "remap", "quit"}

Blank == -1               \* a place on the screen with no picture
NoBlock == -1             \* pressed_block when nothing is selected

(* Is point q inside the rectangle r?  The test of button_handle().        *)
Within(q, r) == /\ r.x <= q[1] /\ q[1] < r.x + r.w
                /\ r.y <= q[2] /\ q[2] < r.y + r.h

(* The rectangle of the block at index i.                                  *)
BlockRect(i) == [x |-> (i % XN) * BLen + XOff, y |-> (i \div XN) * BHgt + YOff,
                 w |-> BLen, h |-> BHgt]

Disjoint(r, s) == \/ r.x + r.w <= s.x \/ s.x + s.w <= r.x
                  \/ r.y + r.h <= s.y \/ s.y + s.h <= r.y

Rectangles == [x : Int, y : Int, w : Nat \ {0}, h : Nat \ {0}]

ASSUME PopAssumption ==
  /\ XN \in Nat \ {0} /\ YN \in Nat \ {0} /\ N % 2 = 0 /\ N \div 2 <= 43
  /\ XOff \in Nat /\ YOff \in Nat
  /\ BLen \in Nat \ {0} /\ BHgt \in Nat \ {0}
  /\ ButtonRect \in [Buttons -> Rectangles]
  /\ \A b, c \in Buttons : b # c => Disjoint(ButtonRect[b], ButtonRect[c])
  /\ \A b \in Buttons : ButtonRect[b].y + ButtonRect[b].h <= YOff
  /\ Points \subseteq Int \X Int
  /\ Centre \in Int \X Int

VARIABLES
  game,      \* the Block_map (left is exist_blocks), and the picture shown in each block's rectangle
  mode,      \* the low bits of mode: 1 while a round is played
  touching,  \* the top bit of mode
  newclick,  \* newclick_flag
  at,        \* x and y: the averaged position of the touch
  active,    \* BUTTON_ACTIVE of each button
  run,       \* "loop" until main() leaves the loop ("quit") or dies ("dead")
  freed,     \* how often the paths of each card have been freed
  span       \* history: the rectangles all samples of this touch lie in

vars == <<game, mode, touching, newclick, at, active, run, freed, span>>

-----------------------------------------------------------------------------
(* The map of blocks                                                       *)

Img(card) == card \div 2                              \* imgid
Picture(card, on) == IF on THEN Img(card) + 43 ELSE Img(card)

InitMap == [block   |-> [i \in Pos |-> [card |-> i, exist |-> TRUE]],
            pressed |-> NoBlock,
            left    |-> N,
            screen  |-> [i \in Pos |-> Blank]]

(* The block that exists under point q, or -1.                             *)
GetBlockId(g, q) ==
  LET idy == (q[2] - YOff) \div BHgt
      idx == (q[1] - XOff) \div BLen
      id  == idx + idy * XN
  IN  IF /\ q[2] >= YOff /\ idy < YN
         /\ q[1] >= XOff /\ idx < XN
         /\ g.block[id].exist
      THEN id
      ELSE NoBlock

(* A match takes the two blocks off the table and their pictures away.     *)
RemovePair(g, id) ==
  [block   |-> [i \in Pos |-> IF i \in {id, g.pressed}
                             THEN [card |-> g.block[i].card, exist |-> FALSE]
                             ELSE g.block[i]],
   pressed |-> NoBlock,
   left    |-> g.left - 2,
   screen  |-> [g.screen EXCEPT ![id] = Blank, ![g.pressed] = Blank]]

(* Mutant: pressing the selected block again is not noticed.               *)
PressBlockNoDeselect(g, id) ==
  IF g.pressed = NoBlock
  THEN [g EXCEPT !.pressed = id,
                 !.screen  = [@ EXCEPT ![id] = Picture(g.block[id].card, TRUE)]]
  ELSE RemovePair(g, id)

(* press_block(): deselect, select, switch the selection, or match.        *)
PressBlock(g, id) ==
  LET card == g.block[id].card
      old  == g.block[g.pressed].card
  IN
  IF g.pressed = id
  THEN [g EXCEPT !.pressed = NoBlock,
                 !.screen  = [@ EXCEPT ![id] = Picture(card, FALSE)]]
  ELSE IF g.pressed = NoBlock
  THEN [g EXCEPT !.pressed = id,
                 !.screen  = [@ EXCEPT ![id] = Picture(card, TRUE)]]
  ELSE IF Img(card) # Img(old)
  THEN [g EXCEPT !.pressed = id,
                 !.screen  = [@ EXCEPT ![g.pressed] = Picture(old, FALSE),
                                       ![id] = Picture(card, TRUE)]]
  ELSE RemovePair(g, id)

(* refresh_screen() clears the whole screen.                               *)
RefreshScreen(g) == [g EXCEPT !.screen = [i \in Pos |-> Blank]]

(* Mutant: the blocks come back but the counter stays.                     *)
ResetMapNoCount(g) ==
  [g EXCEPT !.block = [i \in Pos |-> [card |-> @[i].card, exist |-> TRUE]]]

ResetMap(g) == [g EXCEPT !.block = [i \in Pos |-> [card |-> @[i].card, exist |-> TRUE]],
                         !.left = N]

(* Mutant: a block already taken may be taken again.                       *)
AnyTake == [Pos -> Pos]

(* The orders in which change_map's loop can take the old blocks: module   *)
(* ChangeMap models that loop.                                             *)
Shuffles == {p \in [Pos -> Pos] : \A i, j \in Pos : p[i] = p[j] => i = j}

(* Mutant: the selection survives the shuffle.                             *)
ChangeMapKeepPressed(g, p) == [g EXCEPT !.block = [i \in Pos |-> @[p[i]]]]

ChangeMap(g, p) ==
  LET h == IF g.pressed >= 0 THEN PressBlock(g, g.pressed) ELSE g
  IN  [h EXCEPT !.block = [i \in Pos |-> @[p[i]]]]

ShowMap(g) ==
  [g EXCEPT !.screen = [i \in Pos |-> IF g.block[i].exist
                                      THEN Picture(g.block[i].card, FALSE)
                                      ELSE @[i]]]

-----------------------------------------------------------------------------
(* The loop of main()                                                      *)

Init == /\ game = InitMap
        /\ mode = 0
        /\ touching = FALSE
        /\ newclick = TRUE
        /\ at = Centre
        /\ active = [b \in Buttons |-> FALSE]
        /\ run = "loop"
        /\ freed = [c \in Pos |-> 0]
        /\ span = {}

Around(q) == {r \in {ButtonRect[b] : b \in Buttons} \cup {BlockRect(i) : i \in Pos} :
                Within(q, r)}

Average(q, old) == <<(q[1] + old[1]) \div 2, (q[2] + old[2]) \div 2>>

(* button_handle() for each button while the finger is at q.               *)
ButtonsUnder(q) == [b \in Buttons |-> Within(q, ButtonRect[b])]

(* A sample with pressure: every button follows the finger, and the        *)
(* position is averaged with the earlier ones of this touch.               *)
Touch(q) ==
  /\ run = "loop"
  /\ active' = ButtonsUnder(q)
  /\ at' = IF newclick THEN q ELSE Average(q, at)
  /\ newclick' = FALSE
  /\ touching' = TRUE
  /\ span' = IF ~touching THEN Around(q) ELSE span \cap Around(q)
  /\ UNCHANGED <<game, mode, run, freed>>

(* What the press of a block at the end of an iteration makes of the game  *)
(* g in mode m; matching the last pair ends the round.                     *)
Tapped(g, m) ==
  LET id == GetBlockId(g, at)
  IN  IF m = 1 /\ id >= 0 THEN PressBlock(g, id) ELSE g

ModeAfter(g, m) ==
  IF m = 1 /\ GetBlockId(g, at) >= 0 /\ Tapped(g, m).left = 0 THEN 0 ELSE m

(* Mutant: newclick_flag is not set again.                                 *)
LiftFingerNoFlag(m) ==
  /\ touching' = FALSE
  /\ active' = [b \in Buttons |-> FALSE]
  /\ span' = {}
  /\ mode' = m
  /\ UNCHANGED <<at, newclick>>

(* The rest of the iteration of a sample without pressure, after the       *)
(* buttons left the game as g and the mode as m.                           *)
LiftFinger(m) ==
  /\ touching' = FALSE
  /\ newclick' = TRUE
  /\ active' = [b \in Buttons |-> FALSE]
  /\ span' = {}
  /\ mode' = m
  /\ UNCHANGED at

ReleaseIdle ==
  /\ run = "loop"
  /\ \A b \in Buttons : ~active[b]
  /\ game' = Tapped(game, mode)
  /\ LiftFinger(ModeAfter(game, mode))
  /\ UNCHANGED <<run, freed>>

ReleaseRestart ==
  /\ run = "loop"
  /\ active["restart"]
  /\ \E p \in Shuffles :
        LET g == ShowMap(ChangeMap(ResetMap(RefreshScreen(game)), p))
        IN  game' = Tapped(g, 1) /\ LiftFinger(ModeAfter(g, 1))
  /\ UNCHANGED <<run, freed>>

ReleaseRemap ==
  /\ run = "loop"
  /\ active["remap"]
  /\ \E p \in Shuffles :
        LET g == ShowMap(ChangeMap(RefreshScreen(game), p))
        IN  game' = Tapped(g, 1) /\ LiftFinger(ModeAfter(g, 1))
  /\ UNCHANGED <<run, freed>>

(* Quit frees every path with exit_map, runs the rest of the iteration     *)
(* like any other, and only then leaves the loop and clears the screen.    *)
ReleaseQuit ==
  /\ run = "loop"
  /\ active["quit"]
  /\ freed' = [c \in Pos |-> freed[c] + Cardinality({i \in Pos : game.block[i].card = c})]
  /\ game' = RefreshScreen(Tapped(game, mode))
  /\ LiftFinger(ModeAfter(game, mode))
  /\ run' = "quit"

(* ts_read fails, or a signal arrives: the process exits at once.          *)
Die == /\ run = "loop"
       /\ run' = "dead"
       /\ UNCHANGED <<game, mode, touching, newclick, at, active, freed, span>>

Release == ReleaseIdle \/ ReleaseRestart \/ ReleaseRemap \/ ReleaseQuit

Next == (\E q \in Points : Touch(q)) \/ Release \/ Die

Spec == Init /\ [][Next]_vars

-----------------------------------------------------------------------------
(* Properties                                                              *)

Blocks == [card : Pos, exist : BOOLEAN]

(* The game's fields and main()'s locals hold values of their types.       *)
TypeOK ==
  /\ game.block \in [Pos -> Blocks]
  /\ game.pressed \in Pos \cup {NoBlock}
  /\ game.left \in 0 .. N
  /\ game.screen \in [Pos -> Int]
  /\ mode \in {0, 1}
  /\ touching \in BOOLEAN
  /\ newclick = ~touching
  /\ at \in Int \X Int
  /\ active \in [Buttons -> BOOLEAN]
  /\ run \in {"loop", "quit", "dead"}
  /\ freed \in [Pos -> Nat]
  /\ span \subseteq Rectangles

(* However often the map is reset and remapped, every card is at exactly   *)
(* one index: no block is lost and no pair of paths is owned twice.        *)
CardsOnce == \A i, j \in Pos : game.block[i].card = game.block[j].card => i = j

(* The two blocks of a pair leave the table together: nothing that is left *)
(* lacks its mate, so a round can always be finished.                      *)
PairsTogether ==
  \A i, j \in Pos : Img(game.block[i].card) = Img(game.block[j].card)
                      => game.block[i].exist = game.block[j].exist

(* exist_blocks, kept by decrements, is the number of blocks that exist;   *)
(* main() decides the end of the round by it alone.                        *)
ExistCounted == game.left = Cardinality({i \in Pos : game.block[i].exist})

(* pressed_block never refers to a block that has been removed, so         *)
(* change_map and press_block never act on a block that is gone.           *)
SelectionExists == game.pressed # NoBlock => game.block[game.pressed].exist

(* During a round each block that exists is drawn where a touch finds it,  *)
(* and it is drawn in its "on" picture exactly when it is the selected one.*)
ScreenShowsBlocks ==
  (mode = 1 /\ run # "quit") =>
    \A i \in Pos : game.block[i].exist =>
      game.screen[i] = Picture(game.block[i].card, i = game.pressed)

(* A button that is active is the one under the last sample of a touch     *)
(* that is still going on, so at most one button can fire on a release.    *)
OneActiveButton ==
  /\ \A b \in Buttons : active[b] => touching
  /\ \A b, c \in Buttons : active[b] /\ active[c] => b = c

(* Averaging cannot carry the position out of a rectangle that contains    *)
(* every sample of the touch: a steady tap lands on what was touched.      *)
AverageStaysInside == \A r \in span : Within(at, r)

(* A program that quits has freed the paths of every card exactly once.    *)
FreedOnce == \A c \in Pos : freed[c] = IF run = "quit" THEN 1 ELSE 0

(* A touch that stays inside the Quit button ends the program without      *)
(* pressing a block, whose paths exit_map has just freed; only a touch     *)
(* dragged in from elsewhere can do that.                                  *)
SteadyQuitPressesNothing ==
  [][(active["quit"] /\ ButtonRect["quit"] \in span /\ run' = "quit")
       => game' = RefreshScreen(game)]_vars

-----------------------------------------------------------------------------
(* What the player sees of the game implements PairGame.                   *)

Remaining == {game.block[i].card : i \in {j \in Pos : game.block[j].exist}}
Selected == IF game.pressed = NoBlock THEN NoBlock ELSE game.block[game.pressed].card

Player == INSTANCE PairGame WITH
  Cards <- Pos, None <- NoBlock,
  remaining <- Remaining, selected <- Selected,
  playing <- (mode = 1), over <- (run # "loop")

(* Positions, shuffles, buttons and samples are details of a game in which *)
(* only selecting and matching cards and dealing them anew is possible.    *)
ImplementsPairGame == Player!Spec
=============================================================================
