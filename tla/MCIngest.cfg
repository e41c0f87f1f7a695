SPECIFICATION Spec
CONSTANTS
  root = root
  theirs = theirs
  mine = mine
  last = last
  me = me
  bob = bob
  m = m
  b = b
  Nobody = Nobody
  None = None
  Absent = Absent
  Contents = {text}
  Content = text
  Me = me
  PostIds <- MCPostIds
  Accounts <- MCAccounts
  Names <- MCNames
  HandleOf <- MCHandleOf
  TrueAuthor <- MCTrueAuthor
  TrueParent <- MCTrueParent
  TrueRoot <- MCTrueRoot
  TrueQuote <- MCTrueQuote
  Runs = {r1, r2}
  Published <- MCPublished
  Kinds = {"me", "engagement"}
  BatchSize = 2
  MaxDepth = 1
  PageSize = 1
SYMMETRY Symmetry
INVARIANTS
  RunsAreAccounted
  WrittenPostsAreKept
  RepliesHang
PROPERTIES
  LateAttribution
  DeletedPostsStayAway
