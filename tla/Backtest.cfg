CONSTANTS
  N = 2
  Lot <- MCLot
  CommissionPct = 1
  Sector <- MCSector
  Settings <- Strict
  Capital = 2000
  SlippagePct = 5
  Quotes <- MCQuotes
  Sizes = {30}
  Sigmas = {1}
  RiskModes = {TRUE, FALSE}
  BarsPerDay = 2
  MaxBars = 3
SPECIFICATION Spec
INVARIANTS
  BooksBalance
  BarBudgetRespected
  FlatBookStartsAfresh
PROPERTIES
  CapsRespected
  DrawdownStopsOpenings
CHECK_DEADLOCK FALSE
