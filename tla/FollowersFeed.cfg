SPECIFICATION Spec
CONSTANTS
  u1 = u1
  u2 = u2
  u3 = u3
  Users <- MC_Users
  MaxPosts = 2
  MaxComments = 1
  Faults = FALSE
SYMMETRY MC_Symmetry
INVARIANT
  FeedIsOfFollowed
CHECK_DEADLOCK FALSE
