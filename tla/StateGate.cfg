SPECIFICATION Spec
CONSTANTS
  Run <- MCRuns
  MaxGap = 1
  Limits = {1, 2}
  BlockTransition = TRUE
  StoreMayFail = TRUE
  MaxRestarts = 1
INVARIANTS
  TypeOK
  RecordsMoveForward
  RecordsAreTheStream
  ResetsMarkGaps
  RestartIsInvisible
PROPERTY OpenIsPermitted
