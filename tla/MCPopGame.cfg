SPECIFICATION Spec
CONSTANTS
  XN = 2
  YN = 2
  XOff = 1
  YOff = 2
  BLen = 2
  BHgt = 2
  ButtonRect <- MCButtonRect
  Points <- MCPoints
  Centre <- MCCentre
INVARIANTS
  PairsTogether
  ExistCounted
  ScreenShowsBlocks
PROPERTIES
  SteadyQuitPressesNothing
  ImplementsPairGame
\* the program ends when the player quits
CHECK_DEADLOCK FALSE
