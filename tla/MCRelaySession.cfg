SPECIFICATION FairSpec
CONSTANTS
  QueueCap = 2
  MinBackoff = 1
  MaxBackoff = 3
  MaxFaults = 2
  MaxMoves = 2
INVARIANTS
  TypeOK
  OwnersOutlive
  ViewerNeedsAdmin
  SessionIsTold
PROPERTIES
  RetriesArePaced
  PauseTakesEffect
  LostLinkEndsSession
  AdminIsServed
  AdminGoneClosesViewer
