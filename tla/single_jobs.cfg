CONSTANTS
  p1 = p1  c1 = c1  c234 = c234  s1 = s1  s2 = s2  base = base
  Parent <- NoSplit
  Tier1 <- NoTier
  Tier234 <- NoTier
  Single <- OneSingle
  Sync <- OneSync
  Base = base
  Env <- EnvKind
SPECIFICATION FairSpec
PROPERTIES FreshOrphansFail RequestsSettle
CHECK_DEADLOCK FALSE
