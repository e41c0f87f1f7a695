SPECIFICATION Spec
CONSTANTS
  Openers = {p, q}
  NoOne = NoOne
  Latest = 4
  MaxOpens = 2
CHECK_DEADLOCK FALSE
INVARIANTS
  OpenFilesArePrivate
  LoneOpenSucceeds
PROPERTIES
  ImplementsSchema
  OpensEnd
