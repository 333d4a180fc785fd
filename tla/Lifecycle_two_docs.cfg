SPECIFICATION Spec
CONSTANTS
  NumDocs = 2
  Attempts = {a1, a2, a3}
  NoAttempt = NoAttempt
  Kinds = {"auto"}
  MaxAttempts = 2
  DocQuota = 0
  MaxResets = 0
  Handlers = {h1}
  NoCallback = NoCallback
  MaxCrashes = 0
SYMMETRY Symmetry
PROPERTY KeepsPromise
CHECK_DEADLOCK FALSE
