SPECIFICATION FairSpec
CONSTANTS
  x1 = x1
  x2 = x2
  w1 = w1
  w2 = w2
  NoExec = NoExec
  NoTxn = NoTxn
  Execs <- MCExecs
  Workers <- MCWorkers
  BatchLimit = 1
  WorkflowVersion = 1
  Allowance <- Losses
PROPERTY NeverAbandoned
CHECK_DEADLOCK FALSE
