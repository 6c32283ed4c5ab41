SPECIFICATION MC_Spec
CONSTANTS
  me = me
  u1 = u1
  u2 = u2
  i1 = i1
  i2 = i2
  none = none
  r1 = r1
  r2 = r2
  Loads <- MC_Requests
  MaxPosts = 2
  Authors <- MC_Authors
  Me = me
  Toggles <- MC_Requests
  Faults = TRUE
  Items <- MC_Items
  Buttons <- MC_Requests
  NoItem = none
  Windows <- MC_Requests
  Users <- MC_Users
  NoName = none
  MaxTokens = 2
  Total <- MC_Total
  PageSize = 2
  MaxPage = 4
  Fields <- MC_Items
  MaxVersion = 3
  MaxComments = 2
SYMMETRY Symmetry
INVARIANTS
  TypesOK
  DeletedStaysAway
  CopiesAgree
  SessionAgrees
  PageIsAsked
  EditsSurvive
  DetailsMatch
PROPERTIES
  SessionEndsForAReason
CHECK_DEADLOCK FALSE
