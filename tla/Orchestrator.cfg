SPECIFICATION FairSpec
CONSTANTS
  NSymbols = 2
  Thread = {"trades"}
  Capacity = 3
  Event <- MCBuildFails
  Mode = {"truth", "hysteresis"}
  HandlersMayRaise = TRUE
  MaxTick = 2
INVARIANTS
  TypeOK
  CutsTile
  ReadExactlyOnce
  ReplayReproduces
  OneRunAtATime
PROPERTIES
  RunsAreAnswered
  RecordsAreRead
