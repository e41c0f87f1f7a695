SPECIFICATION MCSpec
CONSTANTS
  Inits = {i, j}
  Logins = {a, b}
  Pids = {x, y}
  MaxAttempts = 2
  Fixed = {u}
  Portless = Portless
  PortZero = PortZero
  Pasted = Pasted
  Answers = {u}
  Old = Old
  NoConfig = NoConfig
  NoToken = NoToken
  NoFile = NoFile
  NoUrl = NoUrl
  NoRequest = NoRequest
  Silent = Silent
  Torn = Torn
  Junk = Junk
CHECK_DEADLOCK FALSE
INVARIANTS
  ConfigIsWhole
  TokenIsApproved
  ExchangesAreGood
PROPERTIES
  OverwriteNeedsARace
  CommandsEnd
