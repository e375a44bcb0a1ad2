SPECIFICATION FairSpec
CONSTANTS
  Bots = {A, B}
  A = A
  B = B
  Moderator = A
  Owner = Owner
  None = None
  MaxChildren = 1
  Addressed = {A}
  Direct = {B}
  MaxPosts = 1
  MaxTasks = 1
  MaxDeeds = 1
PROPERTY RunClosesTask
CHECK_DEADLOCK FALSE
