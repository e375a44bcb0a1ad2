CONSTANTS
  Ops <- MCOps
  Turns <- MCTurns
  Tools = {edit, read}
  Controlled = {edit}
  ReadOnly = {read}
  Asking = {}
  Graceful = {read}
  Policies = {"manual", "deny"}
  Calls = {c1, c2}
  MaxTurns = 1
  MaxFailures = 1
  MaxCrashes = 1
  None = None
SPECIFICATION Spec
INVARIANTS EffectsAreJournalled NoBlindRetry OwnerDecides NoDoubtfulEnd
SYMMETRY InAnyOrder
CHECK_DEADLOCK FALSE
