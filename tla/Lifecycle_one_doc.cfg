SPECIFICATION Spec
CONSTANTS
  NumDocs = 1
  Attempts = {a1, a2, a3}
  NoAttempt = NoAttempt
  Kinds = {"image", "pdf", "scan", "auto", "text"}
  MaxAttempts = 2
  DocQuota = 1
  MaxResets = 1
  Handlers = {h1, h2}
  NoCallback = NoCallback
  MaxCrashes = 1
SYMMETRY Symmetry
INVARIANTS
  TypeOK
  QuotaMatchesRows
  AttemptBudget
  NoParallelRun
  LiveWorkAccepted
  OutcomeHasEvidence
  AckedIsSettled
CHECK_DEADLOCK FALSE
