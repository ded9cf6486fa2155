CONSTANTS
  Clients = {k1, k2}
  NoClient = NoClient
  MaxClients = 1
  DieStates = {}
  AfuDrops = FALSE
  Quiet = FALSE
SPECIFICATION Spec
CHECK_DEADLOCK FALSE
INVARIANT NoUseAfterFree
