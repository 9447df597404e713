CONSTANTS
  MaxSlots = 2
  Memory <- MCMemory
  Kinds <- MCKinds
  Places <- MCPlaces
  Forces <- MCForces
  Confs <- MCConfs
  Spots <- MCSpots
  Frames <- MCFrames
  Junk <- MCJunk
  Own <- MCOwn
  Room = 2
  Bytes = 7
  PointerSize = 4
  H_FIELDS = 2
  V_FIELDS = 1
  MIN_VALUE = 700
  MAX_VALUE = 1500
  ASLEEP_SCANRATE = 5
  DISCARD_FRAMES = 3
SPECIFICATION MCSpec
INVARIANTS
  KeepsInStep
  ReadsFollowPen
  ReleaseWherePressed
  RateComesBack
  ReadFollows
  ContactsReplayed
