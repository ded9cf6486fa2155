SPECIFICATION FairSpec
CONSTANTS
  main = main
  other = other
  Threads = {main, other}
  Main = main
  MayCall <- MainAndOther
  Ranges <- ThreeBytes
  MaxStride = 2
  WakeRaces = FALSE
  MaxCalls = 4
  MaxUnasked = 0
INVARIANTS
  TypeOK
  OkIsAnswered
  EventsPiped
  OneAnswer
PROPERTIES
  CallsReturn
CHECK_DEADLOCK FALSE
