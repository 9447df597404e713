CONSTANTS
  Plugins = {input, pthres, linear}
  RawPlugins = {input}
  Static = {linear}
  MaxLoads = 4
  RawFirst = FALSE
SPECIFICATION Spec
INVARIANT RawOnTop
CHECK_DEADLOCK FALSE
