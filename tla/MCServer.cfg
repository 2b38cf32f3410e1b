SPECIFICATION FairSpec
CONSTANTS
  Content = {empty, good, located, unloadable, unlocated}
  Parsed = {empty, good, unloadable}
  Located = {located}
  Loadable = {empty, good}
  EmptyProject = empty
  StepsPerIoIter = 2
  MaxYields = 3
  MaxCommands = 2
  MaxReports = 1
INVARIANTS PulledOnceInOrder LastGoodProjectRuns
PROPERTIES PauseHoldsUntilResumed EveryCommandIsTaken IdleServerSleeps ServerEnds
CHECK_DEADLOCK FALSE
