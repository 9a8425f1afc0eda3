SPECIFICATION Spec
CHECK_DEADLOCK FALSE
CONSTANTS
  None = None
  Log <- MCLog
  LineBytes <- MCLineBytes
  Committed <- MCCommitted
  Pairings <- MCPairings
  Kinds <- MCKinds
  MaxCheckpoints = 2
  MaxUpsets = 2
INVARIANTS
  StateMatchesPosition
  CheckpointedIsStored
PROPERTIES
  AllRead
