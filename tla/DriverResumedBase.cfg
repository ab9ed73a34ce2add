SPECIFICATION Spec
CONSTANTS
  r1 = r1
  r2 = r2
  Repos = {r1, r2}
  Selections <- MCSelections
  Instructions = {i1, i2}
  MaxFixAttempts = 1
  MaxCommits = 1
  MaxRuns = 2
  None = None
INVARIANTS EverythingProducedIsReviewed
CHECK_DEADLOCK FALSE
