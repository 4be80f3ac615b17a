SPECIFICATION FairSpec
CONSTANTS
  Proc = {p1, p2}
  p1 = p1
  p2 = p2
  Job = {j1, j2}
  j1 = j1
  j2 = j2
  NoProc = NoProc
  NoJob = NoJob
  MaxActive = 2
  MaxRetained = 1
  MaxUp = 2
  MaxPool = 2
  StartupWorker = TRUE
  TimelyHeartbeats = TRUE
  ShortWaits = TRUE
INVARIANTS
  OneWorkerPerJob
PROPERTIES
  FinishedWorkIsRecorded
  SubmittedJobsSettle
CHECK_DEADLOCK FALSE
