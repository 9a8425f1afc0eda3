SPECIFICATION FairSpec
CONSTANTS
  TMs = {"A", "B"}
  NumSlots <- SmallSlots
  Jobs = {"j1", "j2"}
  NameOf <- SameName
  Parallelism <- Subtasks
  MaxFaults = 1
INVARIANTS
  SlotsConsistent
  OffersFit
  CountIsTrue
PROPERTIES
  ViewConverges
CHECK_DEADLOCK FALSE
