CONSTANTS
  NumVisible = 1
  NumHidden = 1
  EdgeMax = 3
  MaxTrained = 4
SPECIFICATION Spec
CHECK_DEADLOCK FALSE
PROPERTIES
  AllMoveAsIla
