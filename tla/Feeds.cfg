SPECIFICATION FeedsSpec
CONSTANTS
  u1 = u1
  u2 = u2
  u3 = u3
  Users <- MC_Users
  MaxPosts = 2
  MaxComments = 1
  Faults = TRUE
  PagePosts = 4
  MaxTime = 2
  MaxChanges = 1
  DefaultLimit = 2
  MaxLimit = 2
  Limits <- MC_Limits
  Runs <- MC_Runs
  NumUsers = 3
  NumPosts = 2
  NumComments = 2
  Nobody = Nobody
  Visitor = Visitor
SYMMETRY MC_Symmetry
INVARIANTS
  TypesOK
  FeedIsOfFollowers
  PagingBound
  SeededOnce
CHECK_DEADLOCK FALSE
