SPECIFICATION FairSpec
CONSTANTS
  Proc = {p1, p2}
  StepsPerIoIter = 2
  MaxQuestions = 2
  MaxText = 2
  MaxInputs = 1
INVARIANTS ScreenIsCurrent TextAnswersItsQuestion WaitersAreAsking
PROPERTIES AnswersAreHeard
CHECK_DEADLOCK FALSE
