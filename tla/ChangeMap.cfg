SPECIFICATION FairSpec
CONSTANT N = 6
INVARIANTS
  EndsInShuffle
PROPERTIES
  Terminates
CHECK_DEADLOCK FALSE
