SPECIFICATION Spec
CONSTANTS
  Run <- MCResetRuns
  MaxGap = 1
  Limits = {2}
  BlockTransition = FALSE
  StoreMayFail = TRUE
  MaxRestarts = 1
INVARIANT ResetRunsAreEvaluated
