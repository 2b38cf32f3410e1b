SPECIFICATION Spec
CONSTANTS
  Code <- MCCode
  Starts <- MCStarts
  Closures <- MCClosures
  Shape <- MCShape
  MaxCallDepth = 4
  MaxFrames = 4
INVARIANTS
  TypeOK
  StackSafe
  Balanced
  HoldsOnlyWhileRunning
CHECK_DEADLOCK FALSE
