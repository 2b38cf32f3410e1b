SPECIFICATION Spec
CONSTANTS
  Code <- MCCode
  Starts <- MCStarts
  Closures <- MCClosures
  Shape <- MCShape
  MaxCallDepth = 3
  MaxFrames = 3
INVARIANT HardErrorsSpareTheVM
CHECK_DEADLOCK FALSE
