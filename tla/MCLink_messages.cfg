SPECIFICATION Spec
CONSTANTS
  HostGrants <- OneFromAfu
  AfuGrants <- OneFromOcse
  MaxMsgs <- OneOnEachLine
  Flits = 1
  ShortAt = {"tail"}
  MaxShorts = 1
INVARIANTS
  TypeOK
  HostToAfu
  CreditsKept
  AfuToHost
CHECK_DEADLOCK FALSE
