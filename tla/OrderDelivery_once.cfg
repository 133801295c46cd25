CONSTANTS
  live = live
  dry = dry
  Orders <- MCOrders
  DryRun <- MCDryRun
  MaxAttempts = 3
SPECIFICATION Spec
INVARIANT ExecutedAtMostOnce
CHECK_DEADLOCK FALSE
