CONSTANTS
  GroupBits = 1
  WordBits = 7
  IntBits = 3
  MaxBlocks = 7
  SHRINK_CYCLES = 2
  DataPos <- MCDataPos
  Programs <- MCPrograms
SPECIFICATION Spec
INVARIANTS
  CodeReadsAsCompiled
  StopsWhenSmallest
  ErrorsAreLocated
CHECK_DEADLOCK FALSE
