----------------------------- MODULE MCPopGame -----------------------------
(* A 2x2 table on a 6x6 screen: buttons in the top row, the blocks below.  *)
EXTENDS PopGame

MCButtonRect ==
  [b \in {"restart", "remap", "quit"} |->
     CASE b = "restart" -> [x |-> 0, y |-> 0, w |-> 2, h |-> 1]
       [] b = "remap"   -> [x |-> 2, y |-> 0, w |-> 2, h |-> 1]
       [] b = "quit"    -> [x |-> 4, y |-> 0, w |-> 2, h |-> 1]]

(* Both ends of each button, a corner or two of each block, and two points *)
(* outside everything.                                                     *)
MCPoints ==
  {<<0, 0>>, <<1, 0>>, <<2, 0>>, <<4, 0>>, <<5, 0>>,
   <<1, 2>>, <<2, 3>>, <<3, 2>>, <<4, 3>>, <<1, 4>>, <<4, 5>>,
   <<0, 3>>, <<5, 5>>}

MCCentre == <<3, 3>>
=============================================================================
