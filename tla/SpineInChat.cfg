SPECIFICATION FairSpec
CONSTANTS
  Repos = {r1}
  Policy = "in-chat"
  MaxActions = 5
  MaxWorkerRuns = 2
  MaxCommits = 1
  MaxCrashes = 1
  MaxFailures = 1
  None = None
INVARIANTS IInv
PROPERTIES DispatchReturns WorkerDaemonFreed
CHECK_DEADLOCK FALSE
