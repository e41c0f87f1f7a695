SPECIFICATION Spec
CONSTANTS
  MaxRetries = 1
  FirstDelay = 1
  MaxRetryDelay = 1
  Items = {i1, i2}
  Procs = {p}
  Cap = 1
  Window = 0
  NoItem = NoItem
  MaxTime = 0
  MaxFailures = 1
  AuditMayFail = FALSE
PROPERTY
  DeletionsAreAudited
