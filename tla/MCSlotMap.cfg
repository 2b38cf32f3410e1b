SPECIFICATION Spec
CONSTANTS
  Value = {v1, v2}
  None = None
  MaxSlots = 3
  MaxGeneration = 2
INVARIANT SlotsExact
PROPERTIES DeadKeysStayDead ImplementsStore
CHECK_DEADLOCK FALSE
