\* Every interleaving and another process, no crash: the queue goes on.
CONSTANTS
  Messages = {m1, m2}
  Runs = {r1, r2}
  Kickers = {k1}
  None = None
  Other = Other
  OtherRuns = TRUE
  Prompt = FALSE
  Disrupted = FALSE
SPECIFICATION FairSpec
PROPERTIES QueueDrains
