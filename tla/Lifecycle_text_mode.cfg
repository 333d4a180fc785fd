SPECIFICATION Spec
CONSTANTS
  NumDocs = 1
  Attempts = {a1, a2}
  NoAttempt = NoAttempt
  Kinds = {"text"}
  MaxAttempts = 2
  DocQuota = 0
  MaxResets = 0
  Handlers = {h1}
  NoCallback = NoCallback
  MaxCrashes = 0
INVARIANT TextModeNeverInvokesOCR
CHECK_DEADLOCK FALSE
