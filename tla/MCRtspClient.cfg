SPECIFICATION Spec
CONSTANTS
  BufCap = 2
  BodyCap = 1
  TakeCap = 1
  WireCap = 2
  MaxRtp = 2
  MaxCseq = 5
INVARIANTS
  TypeOK
  AnswersMatch
  StreamIntact
  SessionsEnd
PROPERTIES
  RefusedIsFinal
  PlayEnds
