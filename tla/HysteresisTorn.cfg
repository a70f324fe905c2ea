SPECIFICATION Spec
CONSTANTS
  NRegimes = 3
  EnterThreshold = 60
  CommitThreshold = 60
  MinLead <- MCMinLead
  DecayStep = 1
  Symbol = {"BTC", "ETH"}
  MaxWindow = 2
  Inputs <- MCInputs
  AppendEnds = {"nothing", "prefix", "payload", "line"}
  MaxTime = 1
  MaxLines = 3
INVARIANT PublishedIsDurable
