SPECIFICATION FairSpec
CONSTANTS
  NumDocs = 1
  Attempts = {a1, a2}
  NoAttempt = NoAttempt
  Kinds = {"auto"}
  MaxAttempts = 1
  DocQuota = 0
  MaxResets = 0
  Handlers = {h1}
  NoCallback = NoCallback
  MaxCrashes = 0
PROPERTY FallbackReachesOCR
CHECK_DEADLOCK FALSE
