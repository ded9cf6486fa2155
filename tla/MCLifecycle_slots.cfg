CONSTANTS
  Clients = {k1, k2}
  NoClient = NoClient
  MaxClients = 1
  DieStates = {"knock", "connected", "open"}
  AfuDrops = TRUE
  Quiet = TRUE
SPECIFICATION FairSpec
CHECK_DEADLOCK FALSE
INVARIANTS TypeOK SlotKept AllListed
PROPERTIES OpenAnswered SlotReleased ShutdownEnds
