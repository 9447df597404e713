SPECIFICATION DeviceSpec
CONSTANTS
  p1 = p1
  p2 = p2
  sysfs = sysfs
  pm = pm
  NULL = NULL
  Proc <- MCProc
  Sysfs = sysfs
  Pm = pm
  NrWins = 2
  Default = 0
  Width = 2
  Vars <- MCVars
  Places <- MCPlaces
  Keys <- MCKeys
  MaxCalls = 6
  MaxOver = 1
SYMMETRY MCSymmetry
INVARIANTS
  HardwareFollows
  NeverScansFreed
  UsersCounted
  FailureGivesBack
CHECK_DEADLOCK FALSE
