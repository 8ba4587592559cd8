CONSTANTS
  X = 5
  Y = 6
  W = 4
  Cols = 8
  Stages = 3
  Pixels = 33
SPECIFICATION FairSpec
CHECK_DEADLOCK FALSE
INVARIANTS
  TypeOK
  PixelsInOrder
  SlicesInOrder
  StencilsInOrder
  ResultsCounted
PROPERTIES
  ImageLeaves
