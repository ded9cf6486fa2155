SPECIFICATION FairSpec
CONSTANTS
  HostGrants <- OneFromAfu
  AfuGrants <- OneFromOcse
  MaxMsgs <- TwoConfigsAndWrite
  Flits = 2
  ShortAt = {"head"}
  MaxShorts = 1
INVARIANT
  DataInOrder
PROPERTIES
  CreditsExchanged
  CfgAnswered
