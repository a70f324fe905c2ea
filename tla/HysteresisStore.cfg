SPECIFICATION Spec
CONSTANTS
  NRegimes = 3
  EnterThreshold = 60
  CommitThreshold = 60
  MinLead <- MCMinLead
  DecayStep = 2
  Symbol = {"BTC", "ETH"}
  MaxWindow = 2
  Inputs <- MCInputs
  AppendEnds = {"nothing", "line"}
  MaxTime = 1
  MaxLines = 3
INVARIANTS
  TypeOK
  FileIsEnough
  ProgressIsEarned
PROPERTIES
  SwitchIsSupported
  IsHysteresisMachine
