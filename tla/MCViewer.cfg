\* One tick is 250 ms: recv 1000 ms, CloseWait 2000 ms as in the code, and a
\* keepalive send that gives up after 500 ms.
SPECIFICATION FairSpec
CONSTANTS
  RecvTimeout = 4
  FeedTime = 1
  SendTimeout = 2
  CloseWait = 8
INVARIANT
  RxOwnsViewer
PROPERTIES
  FailureFreesViewer
  CloseReturns
  KeepsContract
