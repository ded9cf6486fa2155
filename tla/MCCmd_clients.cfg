CONSTANTS
  Tags = {t1, t2}
  NoTag = NoTag
  MaxClients = 2
  Actags = {0, 1, 2}
  ActagsFor <- OwnActags
  Cmds <- ClientMix
  DataOps <- WithData
  HostCL = 2
  MaxRespCredits = 1
  Faults = {"int_derror", "int_pending"}
  Reorder = TRUE
  Leaves = {"detach", "die"}
  MaxOpens = 2
  Overlap = FALSE
SPECIFICATION Spec
SYMMETRY TagSymmetry
INVARIANTS AckMatchesRequest RoutedToAssigned
