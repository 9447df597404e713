SPECIFICATION MCSpec
CONSTANTS
  Chords <- MCChords
  Garbage <- MCGarbage
INVARIANTS
  LampsFollowState
PROPERTIES
  ReportsAreDebounced
  HoldsAreReported
  ReturnsToIdle
CHECK_DEADLOCK FALSE
