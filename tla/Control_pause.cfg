SPECIFICATION Spec
CONSTANTS
  Conns <- TwoConns
  Calls = {c1}
  Actions = {"pause"}
  MaxRestarts = 0
INVARIANT StoredPauseHolds
CHECK_DEADLOCK FALSE
