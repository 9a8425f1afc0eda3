CONSTANTS
  MaxTime = 2
  MaxElems <- ThreeAndTwo
  MaxBarriers = 2
  OutCapacity = 1
SPECIFICATION FairSpec
INVARIANTS
  OutputInEventTime
  NoLossAtEnd
PROPERTIES
  ImplementsAlignedStreams
  MergeEnds
CHECK_DEADLOCK FALSE
