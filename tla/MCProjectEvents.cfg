SPECIFICATION Spec
CONSTANTS
  Key <- MCKey
  NoKey = NoKey
  NoData = NoData
  AnyName = AnyName
  InitScripts <- MCScripts
  NewHats <- MCNewHats
  Data = {d1, d2}
  Locals = {"l"}
  KeyCode = {"a"}
  Name = {"m"}
  Originals = 2
  MaxQueues = {0, 1}
  MaxScripts = 5
  MaxLength = 1
  MaxPending = 2
  MaxOthers = 1
  MaxTargets = 0
INVARIANTS ScriptsOwnTheirProcesses OnlyEventsAndMessagesWait BacklogBounded
PROPERTIES WaitingContextsGoFirst HandlesInOrder StartSparesOthers
SYMMETRY MCSymmetry
VIEW View
