SPECIFICATION ExchangeSpec
CHECK_DEADLOCK FALSE
CONSTANTS
  long = long
  short = short
  None = None
  Channels = {long, short}
  Connections = {1, 2}
  ConnOf <- MCConnOf
  BatchSize = 2
  InitialCredits = 1
  OutBuffer = 2
  StreamRoom = 1
  GrantRoom = 1
  InCapacity = 1
  Inputs <- MCInputs
  Unreliable = {1}
INVARIANTS
  InOrderNoGaps
  CreditConservation
PROPERTIES
  Delivered
