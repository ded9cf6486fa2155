CONSTANTS
  Tags = {t1, t2}
  NoTag = NoTag
  MaxClients = 1
  Actags = {0, 1}
  ActagsFor <- OwnActags
  Cmds <- MemoryMix
  DataOps <- WithData
  HostCL = 2
  MaxRespCredits = 1
  Faults = {"retry", "failed", "derror", "pending", "aerror"}
  Reorder = FALSE
  Leaves = {}
  MaxOpens = 1
  Overlap = FALSE
SPECIFICATION Spec
INVARIANTS TypeOK AnswersAwaited PartsExact WriteDataIntact GoodReadHasData
PROPERTY ImplementsAbs
