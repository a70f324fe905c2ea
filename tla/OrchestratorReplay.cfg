SPECIFICATION Spec
CONSTANTS
  NSymbols = 1
  Thread = {"trades"}
  Capacity = 2
  Event <- MCEngineFails
  Mode = {"truth"}
  HandlersMayRaise = FALSE
  MaxTick = 2
INVARIANT ReplayReproduces
