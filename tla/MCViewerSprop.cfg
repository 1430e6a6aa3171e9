SPECIFICATION Spec
CONSTANTS
  RecvTimeout = 4
  FeedTime = 1
  SendTimeout = 2
  CloseWait = 8
INVARIANT
  SpropFirst
