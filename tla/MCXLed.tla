------------------------------- MODULE MCXLed -------------------------------
(* Two processes and three LEDs: ledwrite.c's two patterns and none lit.   *)
EXTENDS XLed, TLC

CONSTANTS p1, p2, l3, l4, l5

MCProc == {p1, p2}
MCLeds == {l3, l4, l5}
MCPatterns == {{l3, l4}, {l5}, {}}
MCSymmetry == Permutations(MCProc)
=============================================================================
