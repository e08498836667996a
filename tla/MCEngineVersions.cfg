SPECIFICATION Spec
CONSTANTS
  a = a
  b = b
  c = c
  x1 = x1
  r1 = r1
  r2 = r2
  w1 = w1
  NoExec = NoExec
  Execs <- MCExecs
  Runs <- TwoRuns
  WorkerOf <- OneWorker
  Steps <- JustA
  Workflows <- Singles
  CompareVersions = TRUE
  Disturbances = 3
INVARIANT TokensAreUsedUp
PROPERTY RowsKeepTheContract
CHECK_DEADLOCK FALSE
