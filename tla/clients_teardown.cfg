SPECIFICATION Spec
CONSTANTS
  Client = {x1, x2}
  MaxClient = 1
  Applications = {"callbacks"}
  Waits = TRUE
  Nobody = Nobody
INVARIANTS
  NoUseAfterDelete
CHECK_DEADLOCK FALSE
