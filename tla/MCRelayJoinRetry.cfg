SPECIFICATION Spec
CONSTANTS
  QueueCap = 3
  MinBackoff = 1
  MaxBackoff = 3
  MaxFaults = 2
  MaxMoves = 2
PROPERTY
  JoinFailureIsPaced
