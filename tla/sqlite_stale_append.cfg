SPECIFICATION Spec
CONSTANTS
  Proc = {p1, p2}
  p1 = p1
  p2 = p2
  Job = {j1}
  j1 = j1
  NoProc = NoProc
  NoJob = NoJob
  MaxActive = 2
  MaxRetained = 1
  MaxUp = 2
  MaxPool = 2
  StartupWorker = TRUE
  TimelyHeartbeats = FALSE
  ShortWaits = FALSE
SYMMETRY Symmetric
PROPERTIES
  NewerVerdictKept
CHECK_DEADLOCK FALSE
