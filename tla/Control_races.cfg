SPECIFICATION Spec
CONSTANTS
  Conns <- TwoConns
  Calls = {c1, c2}
  Actions = {"pause", "resume", "drain", "revoke", "activate", "enroll"}
  MaxRestarts = 1
INVARIANTS TypeOK RevokedGetsNoWork AppliedPauseHolds
SYMMETRY CallSymmetry
CHECK_DEADLOCK FALSE
