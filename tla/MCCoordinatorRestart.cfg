SPECIFICATION Spec
CONSTANTS
  Operators <- TwoOperators
  NumSources = 2
  Upstream <- UpstreamOf
  BarrierCap = 1
  MaxRetained = 1
  MaxTicks <- TwoTicksThenNone
INVARIANTS
  LatestIsRestorable
CHECK_DEADLOCK FALSE
