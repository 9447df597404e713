CONSTANTS
  Plugins = {input, pthres, linear}
  RawPlugins = {input}
  Static = {linear}
  MaxLoads = 4
  RawFirst = TRUE
SPECIFICATION Spec
INVARIANTS NeverCrashes FirstLoadedFirst NothingLeaks LibsCounted
           ConfiguredCanRead
