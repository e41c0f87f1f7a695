SPECIFICATION MCSpec
CONSTANTS
  MaxRetries = 1
  FirstDelay = 1
  MaxRetryDelay = 1
  Items = {i1, i2}
  Procs = {p, q}
  Cap = 1
  Window = 0
  NoItem = NoItem
  MaxTime = 1
  MaxFailures = 1
  AuditMayFail = TRUE
INVARIANTS
  SuccessMeansGone
  OwnQuota
PROPERTIES
  EraseFollowsService
  BatchEnds
