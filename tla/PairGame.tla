------------------------------ MODULE PairGame ------------------------------
(***************************************************************************)
(* What the pair-matching game of touchscreen/pop.c promises its player,   *)
(* said in terms of the cards alone: which cards are still on the table,   *)
(* which one is selected and whether a round is being played.  Positions,  *)
(* shuffles, touch samples and pictures do not appear; PopGame is shown to *)
(* implement this module.                                                  *)
(***************************************************************************)
EXTENDS Integers

CONSTANTS Cards,  \* the cards of the table; cards 2k and 2k+1 are a pair
          None    \* no card

VARIABLES remaining,  \* the cards not yet matched
          selected,   \* the selected card, or None
          playing,    \* is a round being played?
          over        \* has the program ended?

vars == <<remaining, selected, playing, over>>

Mate(c, d) == c # d /\ c \div 2 = d \div 2

Init == /\ remaining = Cards
        /\ selected = None
        /\ playing = FALSE
        /\ over = FALSE

-----------------------------------------------------------------------------

(* The four things touching a card that is on the table can do.            *)
Unselect(c) == /\ selected = c
               /\ selected' = None
               /\ UNCHANGED <<remaining, playing>>

Select(c) == /\ selected = None
             /\ selected' = c
             /\ UNCHANGED <<remaining, playing>>

Reselect(c) == /\ selected \notin {None, c}
               /\ ~Mate(c, selected)
               /\ selected' = c
               /\ UNCHANGED <<remaining, playing>>

(* The round ends with the match that empties the table.                   *)
Match(c) == /\ selected # None
            /\ Mate(c, selected)
            /\ remaining' = remaining \ {c, selected}
            /\ selected' = None
            /\ playing' = (remaining' # {})

TouchCard == /\ playing
             /\ \E c \in remaining :
                   Unselect(c) \/ Select(c) \/ Reselect(c) \/ Match(c)

(* A new round with every card, or the same cards in other places.  The    *)
(* touch that asked for it may end over a card and select it at once.      *)
Deal == /\ remaining' \in {Cards, remaining}
        /\ selected' \in {None} \cup remaining'
        /\ playing' = TRUE

Play == ~over /\ (TouchCard \/ Deal) /\ UNCHANGED over

(* Leaving ends the program; the touch that asks for it may still act on a *)
(* card it ends over.                                                      *)
Leave == /\ ~over
         /\ over' = TRUE
         /\ TouchCard \/ UNCHANGED <<remaining, selected, playing>>

Next == Play \/ Leave

Spec == Init /\ [][Next]_vars
=============================================================================
