SPECIFICATION Spec
CONSTANTS
  p1 = p1
  p2 = p2
  l3 = l3
  l4 = l4
  l5 = l5
  Proc <- MCProc
  Leds <- MCLeds
  Patterns <- MCPatterns
SYMMETRY MCSymmetry
INVARIANTS
  RefsHeld
  RestPattern
