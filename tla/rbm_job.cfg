CONSTANTS
  MaxUsers = 2
  MaxLoops = 2
  MaxTests = 2
  MaxResets = 1
SPECIFICATION FairSpec
INVARIANTS
  TypeOK
  RecordHeld
  LoadLead
  WeightsSettled
  ResultHeld
  DoneIsComplete
PROPERTIES
  JobDone
  JobEnds
