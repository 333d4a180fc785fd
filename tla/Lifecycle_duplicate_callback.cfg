SPECIFICATION Spec
CONSTANTS
  NumDocs = 1
  Attempts = {a1, a2}
  NoAttempt = NoAttempt
  Kinds = {"image"}
  MaxAttempts = 1
  DocQuota = 0
  MaxResets = 0
  Handlers = {h1, h2}
  NoCallback = NoCallback
  MaxCrashes = 0
INVARIANT CompletedResultStored
CHECK_DEADLOCK FALSE
