CONSTANTS
  p1 = p1  c1 = c1  c234 = c234  s1 = s1  s2 = s2  base = base
  Parent <- OneSplit
  Tier1 <- OneTier1
  Tier234 <- OneTier234
  Single = {}
  Sync = {}
  Base = base
  Env <- Disturbed
SPECIFICATION Spec
INVARIANTS TypeOK NoLostJoin OnlyInflightLeaks StatusTellsFindings
PROPERTIES NoResultLost
CHECK_DEADLOCK FALSE
