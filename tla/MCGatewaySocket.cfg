SPECIFICATION Spec
CONSTANTS
  Workers = {w1, w2}
  QueueCap = 2
  MaxCommands = 2
  MaxFaults = 1
  MaxOutages = 1
INVARIANT NoStaleSocket
