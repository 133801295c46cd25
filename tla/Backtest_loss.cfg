CONSTANTS
  N = 1
  Lot <- MCLot
  CommissionPct = 1
  Sector <- MCSector
  Settings <- Live
  Capital = 2000
  SlippagePct = 5
  Quotes <- MCQuotes
  Sizes = {8, 30}
  Sigmas = {1}
  RiskModes = {TRUE, FALSE}
  BarsPerDay = 3
  MaxBars = 3
SPECIFICATION Spec
PROPERTY LossStopsTheDay
CHECK_DEADLOCK FALSE
