SPECIFICATION Spec
CONSTANTS
  root = root
  theirs = theirs
  mine = mine
  last = last
  me = me
  bob = bob
  m = m
  b = b
  Nobody = Nobody
  None = None
  Absent = Absent
  Contents = {text}
  Content = text
  Me = me
  PostIds <- MCPostIds
  Accounts <- MCAccounts
  Names <- MCNames
  HandleOf <- MCHandleOf
  TrueAuthor <- MCTrueAuthor
  TrueParent <- MCTrueParent
  TrueRoot <- MCTrueRoot
  TrueQuote <- MCTrueQuote
  Runs = {r1}
  Published <- MCPublished
  Kinds = {"me", "engagement", "thread"}
  BatchSize = 2
  MaxDepth = 2
  PageSize = 1
PROPERTIES
  CompleteRunsMissNothing
  ThreadsAreShown
  RunEnds
