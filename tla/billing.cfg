CONSTANTS
  k1 = k1  k2 = k2  h1 = h1  h2 = h2
  Click <- TwoClicks
  Delivery <- TwoDeliveries
  MaxEvents = 3
  MaxFails = 1
SPECIFICATION FairSpec
INVARIANTS TypeOK NoEventDropped OrderlyCacheIsExact
PROPERTIES EventsAreProcessed
CHECK_DEADLOCK FALSE
