CONSTANTS
  Ops <- MCOps
  Turns <- MCTurns
  Tools = {edit, read, ask}
  Controlled = {edit}
  ReadOnly = {read}
  Asking = {ask}
  Graceful = {read}
  Policies = {"manual"}
  Calls = {c1}
  MaxTurns = 1
  MaxFailures = 1
  MaxCrashes = 0
  None = None
SPECIFICATION FairSpec
PROPERTIES RunEnds
CHECK_DEADLOCK FALSE
