----------------------------- MODULE MCKeyPanel -----------------------------
(* The user keeps to one of two sets of buttons, at most two down at once, *)
(* of one port or of both; a read() that fails leaves one of three         *)
(* samples, a chord among them.                                            *)
EXTENDS KeyPanel
VARIABLE fingers
Pairs(S) == {d \in SUBSET S : Cardinality(d) <= 2}
Menu == {{}, {UP}, {LEFT}, {DOWN}, {BACK}, {UP, LEFT}}
Quit == Pairs({LEFT, RIGHT, MENU})
MCChords == Menu \cup Quit
MCGarbage == {{}, {UP}, {UP, LEFT}}

MCInit == PanelInit /\ fingers \in {Menu, Quit} /\ down \in fingers
MCSpec == /\ MCInit
          /\ [][PanelNext /\ down' \in fingers /\ UNCHANGED fingers]_<<panelvars, fingers>>
          /\ Fairness
=============================================================================
