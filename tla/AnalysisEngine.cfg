SPECIFICATION Spec
CONSTANTS
  NModules = 3
  Load <- MCLoad
  MaxRestarts = 1
INVARIANTS
  TypeOK
  PlanIsLeast
  ModulesAreIsolated
  AnalysedOnce
  StateIsThreaded
CHECK_DEADLOCK FALSE
