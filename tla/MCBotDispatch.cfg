SPECIFICATION Spec
CONSTANTS
  Bots = {A, B}
  A = A
  B = B
  Moderator = A
  Owner = Owner
  None = None
  MaxChildren = 1
  Addressed = {A}
  Direct = {B}
  MaxPosts = 1
  MaxTasks = 2
  MaxDeeds = 1
INVARIANTS OneDispatchedRun ChildrenFirst
CONSTRAINT DirectBound
CHECK_DEADLOCK FALSE
