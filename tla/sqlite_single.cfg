SPECIFICATION Spec
CONSTANTS
  Proc = {p1, p2}
  p1 = p1
  p2 = p2
  Job = {j1, j2, j3}
  j1 = j1
  j2 = j2
  j3 = j3
  NoProc = NoProc
  NoJob = NoJob
  MaxActive = 2
  MaxRetained = 1
  MaxUp = 1
  MaxPool = 2
  StartupWorker = TRUE
  TimelyHeartbeats = FALSE
  ShortWaits = FALSE
SYMMETRY Symmetric
INVARIANTS
  TypeOK
  RunningIsRecoverable
PROPERTIES
  TerminalIsFinal
  LifecycleContract
CHECK_DEADLOCK FALSE
