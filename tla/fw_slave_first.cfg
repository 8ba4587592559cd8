CONSTANTS
  Builds = {{"CTX_LOCK", "POR_OPT", "FAB_LOCK"}}
  MaxSramSize = 32
  SlvBuffSize = 4
SPECIFICATION FairSpec
CHECK_DEADLOCK FALSE
PROPERTIES
  MasterGetsImageDone
