SPECIFICATION Spec

CONSTANTS
  NoLimit = NoLimit
  MaxParts = 1
  MaxDelay = 3
  MaxAttempts = 3
  Limits = {7}
  Policies <- MCPolicies
  SinkErrors <- MCSinkErrors

INVARIANTS
  ReconnectsAreCounted
