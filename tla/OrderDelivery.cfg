CONSTANTS
  live = live
  dry = dry
  Orders <- MCOrders
  DryRun <- MCDryRun
  MaxAttempts = 3
SPECIFICATION Spec
INVARIANTS
  RepeatOnlyWhenUnknown
PROPERTIES
  EveryCallReturns
  ImplementsPromise
CHECK_DEADLOCK FALSE
