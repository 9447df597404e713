CONSTANTS
  Xres = 4
  Yres = 3
  YresVirtual = 4
  ButtonAt <- MCButtonAt
  Text <- MCText
  Points <- MCPoints
  Side = 1
  Columns = 6
  Rows = 3
  Left <- MCLeft
  Block <- MCBlock
  Steps = 4
  Run = 3
  Pictures <- MCPictures
  Bias = 1
  xres = 480
  yres = 272
  Inset = 50
  MAX_SAMPLES = 5
  Scaling = 65536
  Panels <- MCPanels
  Stray <- MCStray
SPECIFICATION MCSpec
CHECK_DEADLOCK FALSE
INVARIANTS CrossLeavesNothing OneSquare BlockIsWhole PictureIsWhole ConsoleComesBack
           CalibrationIsTrue
