CONSTANTS
  r1 = r1  r2 = r2
  Request <- TwoRequests
  Modes = {"bank"}
  Size = 2
  Env <- AllEnv
  MaxFaults = 1
SPECIFICATION FairSpec
INVARIANTS TypeOK CounterIsHonest AllAnsweredIsTrue
PROPERTIES AnswersAppear ShownAnswersSettle
CHECK_DEADLOCK FALSE
