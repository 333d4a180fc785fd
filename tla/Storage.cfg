SPECIFICATION FairSpec
CONSTANTS
  Uploads = {u1}
  Inputs = {i1}
  Size <- SizeSmall
  MaxUploadBytes = 2
  Quotas = {0, 2}
  NoKey = NoKey
  Requests = {r1, r2}
  MaxBatch = 2
  FirstQuota = 2
  MaxTurns = 2
INVARIANTS TypeOK StorageExact ConsumedWhileReferenced LiveInputKept
PROPERTIES NeverOversubscribed KeepsStoragePromise ReservationsSettle UploadsSwept
CHECK_DEADLOCK FALSE
