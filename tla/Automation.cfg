\* One repository and two syncs; two scheduled jobs and two runs.
SPECIFICATION AllSpec
CONSTANTS
  None = None
  i1 = i1
  Uploaded = Uploaded
  MaxTasks = 2
  RepoItems = {i1}
  MaxCommit = 2
  Deployments <- MCSyncs
  e1 = e1
  MaxSchedules = 2
  Editors = {e1}
  MaxDispatchers = 2
  MaxRuns = 2
  HistoryLimits = {1, 2}
  JobDeployments <- MCJobDeployments
INVARIANTS SyncSound JobsSound LoopNeverOverlaps NewestKept
PROPERTIES LocalKept LogsClose
CHECK_DEADLOCK FALSE
