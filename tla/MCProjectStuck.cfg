SPECIFICATION Spec
CONSTANTS
  Key <- MCKey
  NoKey = NoKey
  NoData = NoData
  AnyName = AnyName
  InitScripts <- MCScripts
  NewHats <- MCNewHats
  Data = {"d"}
  Locals = {}
  KeyCode = {}
  Name = {"m"}
  Originals = 1
  MaxQueues = {0}
  MaxScripts = 1
  MaxLength = 2
  MaxPending = 1
  MaxOthers = 0
  MaxTargets = 1
INVARIANT NoContextLeftIdle
VIEW View
