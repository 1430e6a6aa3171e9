SPECIFICATION Spec
CONSTANTS
  Base = 3
  Dollar = 2
  Cap = 3
INVARIANTS
  TypeOK
  NoOverrun
  InSync
  DeliversFrames
