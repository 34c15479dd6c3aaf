SPECIFICATION FairSpec
CONSTANTS
  Conn = {c1}
  PairCount = 3
  Settings <- Challenging
INVARIANTS
  RetriesBounded
  PlayNeedsEverySetup
  OneRequestAtATime
PROPERTIES
  HandshakeEnds
CHECK_DEADLOCK FALSE
