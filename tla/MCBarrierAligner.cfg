CONSTANTS
  MaxInputs = 3
  MaxElems <- UpToThreeInputs
  MaxBarriers = 2
  Overlap = FALSE
SPECIFICATION FairSpec
INVARIANTS
  NoLossWhenUnblocked
PROPERTIES
  ImplementsAlignedStreams
  AlignmentCompletes
CHECK_DEADLOCK FALSE
