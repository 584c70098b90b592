SPECIFICATION FairSpec
CONSTANTS
  Session <- TwoSessions
  Inode <- TwoInodes
  ReuseInodes = FALSE
  Maintenance = maintenance
  Worker = {worker}
  PageSize = 1
  MaxTemp = 4
  MaxCalls = 1
  MaxCrashes = 2
INVARIANTS LiveFileKept NothingForgotten
PROPERTIES DeadFileIsRemoved Implements
CHECK_DEADLOCK FALSE
