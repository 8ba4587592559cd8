CONSTANTS
  Builds = {{}}
  MaxSramSize = 32
  SlvBuffSize = 4
SPECIFICATION FairSpec
CHECK_DEADLOCK FALSE
PROPERTIES
  MasterGetsImageDone
