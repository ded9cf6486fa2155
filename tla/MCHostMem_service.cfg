SPECIFICATION Spec
CONSTANTS
  Word = 2
  NMems = 12
  NLines = 24
  Mems <- SomeMems
  Cmds <- ValidCmds
PROPERTIES
  Served
  ReplyFits
CHECK_DEADLOCK FALSE
