CONSTANTS
  N = 1
  Lot <- MCLot
  CommissionPct = 1
  Sector <- MCSector
  Settings <- Production
  Prices = {9, 10}
  Sizes = {8, 15}
  Sigmas = {1, 20}
  StartCash = 1000
  StartPos <- MCStartFlat
  RemainingCash = TRUE
  ReportedFees = {}
  DailyLimit = 3
  NavHistoryDays = 1
  NavTail = 2
  DayLength = 2
  MaxFills = 1
  Strays = FALSE
  MaxTicks = 2
  MaxDays = 1
  MaxCrashes = 0
SPECIFICATION Spec
PROPERTY StopLossFires
CHECK_DEADLOCK FALSE
