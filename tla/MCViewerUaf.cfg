\* One tick is 500 ms: the timeouts of the code.
SPECIFICATION Spec
CONSTANTS
  RecvTimeout = 2
  FeedTime = 0
  SendTimeout = 20
  CloseWait = 4
CHECK_DEADLOCK FALSE
INVARIANT
  RxOwnsViewer
