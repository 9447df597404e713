CONSTANTS
  Confs <- MCConfs
  Junk <- MCJunk
  Slots <- MCSlots
  Origin = 0
  Pmin = 2
  Pmax = 5
  Threshold = 3
  DejitterDelta = 16
  VarianceDelta = 16
  Depth = 3
  SampleSize = 20
  SampleMtSize = 72
  Scale <- MCScale
  Offset = 9
  Divisor = 1
  Res = 3
  CalRes = 2
  POffset = 0
  PMult = 1
  PDiv = 1
  UnsignedMod = 65536
SPECIFICATION Spec
INVARIANTS ReleasesEndPresses BatchesDoNotMatter 
           NeverTooEarly PenIsNotStuck KeepsUp GivesTheMiddle
