CONSTANTS
  t1 = t1
  Client <- OneTab
  MaxPolls = 2
  MaxReconnects = 2
  Env <- AllEnv
SPECIFICATION FairSpec
INVARIANTS TypeOK
PROPERTIES ImplementsReporter WaitingTrackersAreTold TrackersEnd
CHECK_DEADLOCK FALSE
