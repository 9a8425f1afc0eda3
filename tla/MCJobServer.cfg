CONSTANTS
  NumOps = 2
  Capacity = 2
  FanOut <- DoubleThenMap
  MayFail = TRUE
  MaxElems = 3
SPECIFICATION JobFairSpec
INVARIANTS
  DeliveredInOrder
  StatusIsTrue
PROPERTIES
  JobEnds
CHECK_DEADLOCK FALSE
