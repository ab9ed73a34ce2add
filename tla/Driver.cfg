SPECIFICATION FairSpec
CONSTANTS
  r1 = r1
  r2 = r2
  Repos = {r1, r2}
  Selections <- MCSelections
  Instructions = {i1, i2}
  MaxFixAttempts = 1
  MaxCommits = 2
  MaxRuns = 2
  None = None
INVARIANTS ShippedIsVetted RecordIsTrue OneUnrecordedPerRun
PROPERTIES NothingShipsTwice RunEnds KeepsTheRecord
CHECK_DEADLOCK FALSE
