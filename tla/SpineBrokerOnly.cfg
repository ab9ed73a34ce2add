SPECIFICATION Spec
CONSTANTS
  Repos = {r1}
  Policy = "broker-only"
  MaxActions = 6
  MaxWorkerRuns = 2
  MaxCommits = 1
  MaxCrashes = 1
  MaxFailures = 1
  None = None
INVARIANTS OpenGateIsAttested IntentAttested WorkerRunsBounded OnlyTheActionInFlightIsAtRisk
CHECK_DEADLOCK FALSE
