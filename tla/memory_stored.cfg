SPECIFICATION FairSpec
CONSTANTS
  Job = {j1, j2, j3, j4}
  j1 = j1
  j2 = j2
  j3 = j3
  j4 = j4
  NoJob = NoJob
  MaxActive = 2
  MaxRetained = 1
  HasStore = TRUE
  DirectWrite = TRUE
INVARIANTS
  JobsAreStored
  CancelIsDurable
  NoneStranded
PROPERTIES
  SubmittedJobsSettle
CHECK_DEADLOCK FALSE
