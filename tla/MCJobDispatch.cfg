SPECIFICATION Spec
CONSTANTS
  x1 = x1
  x2 = x2
  w1 = w1
  w2 = w2
  NoExec = NoExec
  NoTxn = NoTxn
  Execs <- One
  Workers <- MCWorkers
  BatchLimit = 1
  WorkflowVersion = 1
  Allowance <- OneOfEach
INVARIANTS
  TypeOK
  ClaimNeverConflicts
  OwnersHaveDistinctVersions
PROPERTIES
  OnlyRunsReviveFinished
  EachPermitDispatchesOnce
  RowsKeepTheContract
SYMMETRY Symmetry
CHECK_DEADLOCK FALSE
