SPECIFICATION SourcesFairSpec
CONSTANTS
  Operators <- TwoOperators
  NumSources = 2
  Upstream <- UpstreamOf
  BarrierCap = 1
  MaxRetained = 1
  MaxTicks <- TwoTicksThenNone
INVARIANTS
  FirstRunIsRestorable
  NewestIsKept
PROPERTIES
  CancelReturns
CHECK_DEADLOCK FALSE
