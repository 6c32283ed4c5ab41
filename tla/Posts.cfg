SPECIFICATION Spec
CONSTANTS
  q1 = q1
  q2 = q2
  q3 = q3
  q4 = q4
  author = author
  moderator = moderator
  admin = admin
  Reqs <- MC_Reqs4
  Users <- MC_Author
  Level <- MC_Level2
  MaxPosts = 1
  NoPost = NoPost
  Faults = {}
SYMMETRY Symmetry
INVARIANTS
  TypeOK
  VersionsUnique
  ConflictHasWinner
  DeletedOnce
CHECK_DEADLOCK FALSE
