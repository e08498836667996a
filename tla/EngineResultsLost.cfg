SPECIFICATION Spec
CONSTANTS
  a = a
  b = b
  c = c
  x1 = x1
  r1 = r1
  r2 = r2
  w1 = w1
  NoExec = NoExec
  Execs <- MCExecs
  Runs <- OneRun
  WorkerOf <- OneWorker
  Steps <- JustA
  Workflows <- Singles
  CompareVersions = TRUE
  Disturbances = 0
PROPERTY ResultsAreRecorded
CHECK_DEADLOCK FALSE
