CONSTANTS
  m1 = m1  s1 = s1  s2 = s2
  Match <- OneMatch
  Scan <- TwoScans
  MaxTries = 2
  MaxReconnects = 1
  Env <- AllEnv
  MaxFaults = 1
SPECIFICATION FairSpec
INVARIANTS TypeOK DigestIsHonest OneExplainer
PROPERTIES BadgeCatchesUp 
CHECK_DEADLOCK FALSE
