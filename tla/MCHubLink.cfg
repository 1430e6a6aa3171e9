SPECIFICATION Spec
CONSTANTS
  Conns = {c1, c2}
  MaxHellos = 2
  MaxMoves = 3
INVARIANTS
  HandshakeHolds
  PairHolds
  Announced
PROPERTY BeaconStops
