CONSTANTS
  Tags = {t1, t2, t3}
  NoTag = NoTag
  MaxClients = 1
  Actags = {0, 1}
  ActagsFor <- OwnActags
  Cmds <- LiveMix
  DataOps <- WithData
  HostCL = 2
  MaxRespCredits = 1
  Faults = {"pending"}
  Reorder = FALSE
  Leaves = {}
  MaxOpens = 1
  Overlap = FALSE
SPECIFICATION FairSpec
PROPERTIES Answered Resumed
