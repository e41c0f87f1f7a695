SPECIFICATION Spec
CONSTANTS
  MaxRetries = 5
  FirstDelay = 1
  MaxRetryDelay = 6
  RetryAfters = {0, 9}
  Pending = Pending
INVARIANTS
  CostBounded
PROPERTY
  ImplementsRemoteCall
