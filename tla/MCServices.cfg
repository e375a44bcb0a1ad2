\* Every component with its failures and restarts.
CONSTANTS
  None = None
  Deliveries = {d1, d2}
  Callers = {a, b}
  Corrupt = Corrupt
  MaxFaults = 1
  MaxCrashes = 2
  Writers = {w1, w2}
  MaxEvents = 4
  Requests = {r1, r2}
  Bound = {r1}
  Aside = {r2}
  p = p  q = q
  a = a  b = b  d = d
  Of <- MCOf
  Limits <- MCLimits
  Clients = {a, b, d}
  Providers = {p, q}
  Checks = {d}
  Rpm = 1
  MaxCalls = 3
  MaxChanges = 1
  Plans <- MCPlans
  MaxTurns = 2
  MaxAttempts = 3
  MaxTroubles = 1
  Command <- MCCommand
  Asks = {k1, k2}
  Kept = {k1}
  Revoker = Revoker
  MaxIncidents = 1
  Jobs = {j}
  Horizon = 2
  MaxBadWrites = 2
  MaxStarts = 2
  Evidence = {e1, e2}
  MaxJudgements = 2
  MaxMishaps = 2
  MaxRestarts = 1
  Executions = {e1, e2}
  Steps = {s1, s2}
  MaxTorn = 1
  MaxWeeks = 1
  MaxStops = 1
  MaxDeals = 2
  MaxEdits = 1
  MaxBroken = 2
  MaxPowers = 1
  Sessions = {r1, r2}
  Nobody = Nobody
  MaxTokens = 2
  MaxLosses = 1
  MaxReboots = 1
SPECIFICATION MCSpec
CONSTRAINTS EarlyBound LedgersBound PermitsBound
INVARIANTS
  OwedDurable DoneNeverReturns OnlyLateHides CountedOnce
  NobodySleepsInVain ProbeIsHeld PaidOnce EffectsAreKnown RecordedIsActed
  FiredOnce NoneLost JudgedOnce DispatchedOnce AllOrNothing RefreshedOnce
PROPERTIES
  OrderIsKept ImplementsPromise KnownIsCounted
CHECK_DEADLOCK FALSE
