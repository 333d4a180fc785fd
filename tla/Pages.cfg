SPECIFICATION FairSpec
CONSTANTS
  Absent = Absent
  Users = {u1}
  InitialStorage = {4}
  NoUser = NoUser
  MaxEdits = 1
  Typable <- TypableSmall
  AccountRates = {30}
  MaxKeys = 1
  MaxReloads = 1
  Nodes = {m1}
  Nobody = Nobody
  AuthMode = "enrollment"
  MaxRuns = 2
  MaxCalls = 1
  MaxSends = 2
  MaxOthers = 1
  MaxLosses = 1
  MaxPending = 2
  MaxTurns = 2
INVARIANTS TypeOK UntouchedSaveIsNeutral
PROPERTIES AckedChangeIsShown FormsRecover SecretShownOnce NewKeyIsRevealed TableNeverGoesBack ButtonsComeBack
CHECK_DEADLOCK FALSE
