SPECIFICATION FairSpec
CONSTANTS
  Tabs = {t1}
  Accounts = {root, dev}
  Admins = {root}
  NoUser = NoUser
  Loading = Loading
  MaxLogins = 2
  MaxLosses = 1
  MaxEnds = 1
  MaxReloads = 1
  MaxMoves = 1
  MaxPending = 2
  MaxTurns = 1
INVARIANTS TypeOK ViewFitsRole GhostShellIsDoomed
PROPERTIES SpinnerEnds LoginAnswered WorkersPageNoticesLogout
CHECK_DEADLOCK FALSE
