CONSTANTS
  m1 = m1  m2 = m2  r1 = r1  r2 = r2
  None = None
  Match <- OneMatch
  Request <- TwoRequests
  Kinds <- AllKinds
  Env <- AllEnv
  MaxFaults = 0
  MaxVisits = 2
SPECIFICATION Spec
PROPERTIES NeverDowngraded
CHECK_DEADLOCK FALSE
