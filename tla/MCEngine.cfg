SPECIFICATION FairSpec
CONSTANTS
  a = a
  b = b
  c = c
  x1 = x1
  r1 = r1
  r2 = r2
  w1 = w1
  NoExec = NoExec
  Execs <- MCExecs
  Runs <- OneRun
  WorkerOf <- OneWorker
  Steps <- ABC
  Workflows <- Flows
  CompareVersions = FALSE
  Disturbances = 2
INVARIANTS
  TypeOK
  DependenciesDone
  ChannelHasRoom
  UndoesOnlyWhatIsDone
PROPERTIES
  SuccessMeansAllDone
  RunsEnd
CHECK_DEADLOCK FALSE
