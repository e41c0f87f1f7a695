SPECIFICATION Spec
CONSTANTS
  MaxRetries = 1
  FirstDelay = 1
  MaxRetryDelay = 1
  Procs = {p, q}
  MaxItems = 2
  Total <- MCTotal
  MaxPolls = 2
  Pending = Pending
INVARIANTS
  QuotaOvershoot
  PublishedPostsAreWhole
PROPERTY
  CommandsAreSingleCalls
