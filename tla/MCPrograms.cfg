SPECIFICATION Spec
CONSTANTS
  MaxBlocks = 3
  MaxUnits = 2
INVARIANTS
  CompiledCodeVerifies
  NestedCodeLeavesItsResult
CHECK_DEADLOCK FALSE
