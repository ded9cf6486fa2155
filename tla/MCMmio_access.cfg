CONSTANTS
  MaxClients = 2
  MaxEvents = 3
  Reqs <- AccessMix
  CfgOps <- ReadWriteRead
  IdleCycles = 1
  CmdCredits = 1
  CfgCredits = 1
  Answers = {"wr_fail", "split"}
  Leaves = {"detach", "die"}
  Threads = FALSE
  MaxOpens = 2
SPECIFICATION FairSpec
INVARIANTS TypeOK ResponseIsHeads PerformedOnce NoDangling AccessIsOwn ReadDataIntact CreditsHeld
PROPERTIES RequestAnswered ConfigurationRead
