SPECIFICATION Spec
CONSTANTS
  SeqMod = 4
  Cap = 3
  MaxPackets = 5
INVARIANTS
  TypeOK
  NoHole
  FragmentsWhole
  KeyframeFlag
  Recovers
PROPERTY
  KeyAfterLoss
CHECK_DEADLOCK FALSE
