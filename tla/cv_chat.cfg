CONSTANTS
  phone = phone  weeks = weeks  t1 = t1  t2 = t2  c1 = c1  c2 = c2
  Required <- OneRequired
  Optional <- OneOptional
  Numeric <- OneOptional
  TipFields <- OneOptional
  Tab <- TwoTabs
  Chat <- TwoChats
  MaxTurns = 2
SPECIFICATION Spec
INVARIANTS TypeOK DoneMeansFilled AnswersAreKept OneActiveChat
SYMMETRY Symmetry
CHECK_DEADLOCK FALSE
