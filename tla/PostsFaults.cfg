SPECIFICATION Spec
CONSTANTS
  q1 = q1
  q2 = q2
  q3 = q3
  q4 = q4
  author = author
  moderator = moderator
  admin = admin
  Reqs <- MC_Reqs3
  Users <- MC_Users
  Level <- MC_Level
  MaxPosts = 2
  NoPost = NoPost
  Faults = {"db", "lostack"}
SYMMETRY Symmetry
PROPERTY
  PostStoreSpec
CHECK_DEADLOCK FALSE
