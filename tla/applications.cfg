CONSTANTS
  m1 = m1  m2 = m2  r1 = r1  r2 = r2
  None = None
  Match <- TwoMatches
  Request <- TwoRequests
  Kinds <- AllKinds
  Env <- AllEnv
  MaxFaults = 1
  MaxVisits = 2
SYMMETRY Symmetric
SPECIFICATION Spec
INVARIANTS TypeOK PageIsTrue AppliedMovesOn
CHECK_DEADLOCK FALSE
