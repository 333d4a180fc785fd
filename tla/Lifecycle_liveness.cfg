SPECIFICATION FairSpec
CONSTANTS
  NumDocs = 1
  Attempts = {a1, a2, a3}
  NoAttempt = NoAttempt
  Kinds = {"image", "pdf", "scan", "text"}
  MaxAttempts = 2
  DocQuota = 0
  MaxResets = 0
  Handlers = {h1}
  NoCallback = NoCallback
  MaxCrashes = 1
PROPERTY EverySubmissionSettles
CHECK_DEADLOCK FALSE
