SPECIFICATION Spec
CONSTANTS
  Conn = {c1, c2}
  PairCount = 3
  Settings <- Sharing
SYMMETRY Symmetry
INVARIANTS
  TypeOK
  PairsOwnedOnce
PROPERTIES
  FailedIsFinal
CHECK_DEADLOCK FALSE
