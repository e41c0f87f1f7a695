SPECIFICATION Spec
CONSTANTS
  root = root
  theirs = theirs
  mine = mine
  me = me
  bob = bob
  m1 = m1
  m2 = m2
  b1 = b1
  Nobody = Nobody
  None = None
  Absent = Absent
  Contents = {text}
  Me = me
  PostIds <- MCPostIds
  Accounts <- MCAccounts
  Names <- MCNames
  TrueAuthor <- MCTrueAuthor
  TrueParent <- MCTrueParent
  TrueRoot <- MCTrueRoot
  TrueQuote <- MCTrueQuote
  Pool <- MCPool
  Published <- MCPublished
PROPERTY
  DeletePostsSparesReplies
