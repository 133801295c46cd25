CONSTANTS
  N = 2
  Lot <- MCLot
  CommissionPct = 1
  Sector <- MCSector
  Settings <- AllOn
  Prices = {20, 22}
  Sizes = {25}
  Sigmas = {1}
  StartCash = 1000
  StartPos <- MCStartHeld
  RemainingCash = FALSE
  ReportedFees = {5}
  DailyLimit = 2
  NavHistoryDays = 1
  NavTail = 2
  DayLength = 1
  MaxFills = 1
  Strays = TRUE
  MaxTicks = 2
  MaxDays = 0
  MaxCrashes = 1
SPECIFICATION Spec
INVARIANTS
  FlipPassesLimitOncePerTicker
PROPERTIES
  LadderOnce
CHECK_DEADLOCK FALSE
