CONSTANTS
  v1 = v1
  v2 = v2
  Uninit = Uninit
  Values <- TwoValues
  Capacity = 2
  SpinLimit = 2
  MaxSends = 4
SPECIFICATION FairSpec
INVARIANTS
  SlotDiscipline
  SlotsExact
  EndOnlyWhenDrained
  IInv
PROPERTIES
  ImplementsChannel
  NotifiedIsReceived
  CloseIsSeen
CHECK_DEADLOCK FALSE
