\* Three messages, crashes and a deletion: the order of the queue.
CONSTANTS
  Messages = {m1, m2, m3}
  Runs = {r1, r2}
  Kickers = {k1}
  None = None
  Other = Other
  OtherRuns = FALSE
  Prompt = TRUE
  Disrupted = TRUE
SPECIFICATION Spec
SYMMETRY Symmetry
INVARIANTS InOrder
