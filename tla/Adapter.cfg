SPECIFICATION Spec

CONSTANTS
  NoLimit = NoLimit
  MaxParts = 3
  MaxDelay = 3
  MaxAttempts = 4
  Limits = {4}
  Policies <- MCPolicies
  SinkErrors <- MCSinkErrors

INVARIANTS
  TypeOK
  RetriesAreBudgeted
  LossIsRecorded
  ReportsAreTrue
  StopIsObeyed

PROPERTIES
  StopEnds
