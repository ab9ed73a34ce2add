SPECIFICATION Spec
CONSTANTS
  Repos = {r1}
  Policy = "broker-only"
  MaxActions = 5
  MaxWorkerRuns = 2
  MaxCommits = 1
  MaxCrashes = 0
  MaxFailures = 0
  None = None
PROPERTIES VerdictsAreOfTheCurrentHead
CHECK_DEADLOCK FALSE
