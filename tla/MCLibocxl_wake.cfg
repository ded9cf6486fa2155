SPECIFICATION FairSpec
CONSTANTS
  main = main
  other = other
  Threads = {main, other}
  Main = main
  MayCall <- MainAndOther
  Ranges <- ThreeBytes
  MaxStride = 2
  WakeRaces = TRUE
  MaxCalls = 3
  MaxUnasked = 0
PROPERTIES
  CallsReturn
CHECK_DEADLOCK FALSE
