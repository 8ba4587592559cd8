CONSTANTS
  Size = 8
  RegNum = 3
  IdxNum = 4
  Programs <- MainProgram
  Memories <- OneMemory
SPECIFICATION Spec
INVARIANT LoadNotReached
