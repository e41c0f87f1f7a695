SPECIFICATION MCSpec
CONSTANTS
  Logins = {login}
  Logouts = {logout}
  Refreshes = {r1}
  Purges = {purge}
  Old = Old
  Accounts = {a, b}
  NoToken = NoToken
  None = None
  Torn = Torn
  Dimensions = 1
  Cursors = {c, d}
  MaxTime = 1
CHECK_DEADLOCK FALSE
INVARIANTS
  TypeOK
  SnapshotsAreWhole
  LogoutHolds
PROPERTIES
  RefreshEnds MisbindingNeedsARace
  SnapshotsAreTheAccounts
