CONSTANTS
  Tickers <- MCTickers
  Quantities <- MCQuantities
  Grace = 2
  TailLines = 4
  MaxFills = 2
  MaxFaults = 2
SPECIFICATION Spec
INVARIANTS
  TypeOK
PROPERTIES
  CloseNotEarly
  GraceSurvivesRestart
  ClosingReduces
  EventuallyFlat
CHECK_DEADLOCK FALSE
