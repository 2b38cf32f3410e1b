SPECIFICATION FairSpec
CONSTANTS
  Process = {p1, p2}
  Script = {s1, s2}
  RequestId = {r1, r2}
  NoId = NoId
  NoValue = NoValue
  Timeout = 2
INVARIANTS WaitersAreKnown OnlyTheStoppedLinger
PROPERTIES FirstReplyWins ImplementsPromise EveryWaitEnds
CHECK_DEADLOCK FALSE
