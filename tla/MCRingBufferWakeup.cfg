CONSTANTS
  v1 = v1
  v2 = v2
  Uninit = Uninit
  Values <- OneValue
  Capacity = 2
  SpinLimit = 2
  MaxSends = 3
SPECIFICATION Spec
INVARIANTS
  NoLostWakeup
CHECK_DEADLOCK FALSE
