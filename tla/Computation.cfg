SPECIFICATION Spec
CONSTANTS
  None = None
  NaN = NaN
  btc = btc
  eth = eth
  Symbols = {btc, eth}
  Window = 10
  AtrWindow = 2
  AtrZWindow = 5
  NRegimes = 9
  EnterThreshold = 60
  CommitThreshold = 80
  MinLead = 0
  DecayStep = 1
  Feeds <- AllFeeds
  Orders <- MCOrders
  Cadence = 10
  MaxTick = 2
  HysteresisWindow = 2
  Largest = 1000
  Inf = Inf
  MinusInf = MinusInf
INVARIANTS
  TypeOK
  MessagesAreOnRecord
  FlowIsTheTrades
  NumbersAreRight
  EvidenceReachesTheOutput
  ObserversAreFair
PROPERTY OrderOnlyBreaksTies
