\* Two messages, two run tasks, every race, failure and crash.
CONSTANTS
  Messages = {m1, m2}
  Runs = {r1, r2}
  Kickers = {k1}
  None = None
  Other = Other
  OtherRuns = TRUE
  Prompt = FALSE
  Disrupted = TRUE
SPECIFICATION Spec
SYMMETRY Symmetry
INVARIANTS OneWriter AbortIsFinal DeletionIsQuiet
PROPERTIES ImplementsConversation OnlyLateForsakes
