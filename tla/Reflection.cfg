CONSTANTS
  Plain <- MCPlain
  Separated <- MCSeparated
  Scrap = scrap
  MaxPieces = 0
  TailLines = 3
  MaxWrites = 3
  MaxCrashes = 1
  t1 = t1
  Threads = {t1}
  MaxDays = 2
  MaxSlips = 1
SPECIFICATION MemorySpec
INVARIANTS
  IntactIsReturned
  ReviewedOnce
  AlertsAreWhole
CHECK_DEADLOCK FALSE
