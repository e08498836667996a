SPECIFICATION Spec
CONSTANTS
  a = a
  b = b
  c = c
  d = d
  missing = missing
  StepId <- MCStepId
  Inputs <- MCInputs
INVARIANTS
  DependenciesInEarlierLayers
  EachStepExactlyOnce
  NoStepWaitsLongerThanNeeded
  PlanExactlyWhenAcyclic
PROPERTIES
  Terminates
CHECK_DEADLOCK FALSE
