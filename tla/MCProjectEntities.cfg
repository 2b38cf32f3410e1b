SPECIFICATION Spec
CONSTANTS
  Key <- MCKey
  NoKey = NoKey
  NoData = NoData
  AnyName = AnyName
  InitScripts <- MCScripts
  NewHats <- MCNewHats
  Data = {}
  Locals = {}
  KeyCode = {}
  Name = {"m"}
  Originals = 1
  MaxQueues = {0}
  MaxScripts = 5
  MaxLength = 2
  MaxPending = 1
  MaxOthers = 1
  MaxTargets = 1
INVARIANTS TypeOK EveryProcessQueuedOnce SomeProcessCanGoOn ClonesMirrorRoots
PROPERTY OnlyTheFirstIsPassed
VIEW View
