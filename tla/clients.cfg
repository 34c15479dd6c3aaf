SPECIFICATION FairSpec
CONSTANTS
  Client = {x1, x2}
  MaxClient = 1
  Applications = {"own_thread", "callbacks"}
  Waits = TRUE
  Nobody = Nobody
INVARIANTS
  TypeOK
  IndexesOwnedOnce
  StoppedMayBeDestroyed
  StoppedIsQuiet
  HandleNotPulled
PROPERTIES
  StopReturns
  SilenceIsReported
CHECK_DEADLOCK FALSE
