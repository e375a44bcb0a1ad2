SPECIFICATION Spec
SYMMETRY Symmetry
CONSTANTS
  Processes = {p1, p2}
  Cards = {c1}
  None = None
  implementing = implementing
  review = review
  done = done
  Columns = {implementing, review, done}
  Entry <- MCEntry
  OnSuccess <- MCOnSuccess
  OnFailure <- MCOnFailure
  Wip <- MCWip
  Starts = {implementing, review}
  MaxUses = 1
  MaxAttempts = 2
  MaxCrashes = 1
  MaxFailures = 1
  MaxCommands = 2
INVARIANTS LogReplays NoneForsaken
