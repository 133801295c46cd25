CONSTANTS
  Tickers <- MCTickers
  Cap = 2
  Slots = 2
  Workers = 2
  MaxTicks = 2
SPECIFICATION Spec
INVARIANTS
  PositionsAreEvaluated
  ResultsAreFresh
  KeptWaitingByOrphansOnly
  OrdersOneAtATime
PROPERTIES
  NothingBegunAfterStop
  TickEnds
CHECK_DEADLOCK FALSE
