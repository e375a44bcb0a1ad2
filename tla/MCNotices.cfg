\* A task and a teammate's report, two runs, one restart, every failure.
CONSTANTS
  Tasks = {t1}
  Foreign = {}
  Reports = {p1}
  Runs = {r1, r2}
  None = None
  MaxCrashes = 1
  MaxFailures = 1
SPECIFICATION FairSpec
INVARIANTS NothingLost NoneForgotten
PROPERTIES EndsAreTold
