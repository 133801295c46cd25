CONSTANTS
  MaxAttempts = 2
  Rounds <- MCRounds
  AlertSkips <- MCBoth
  InGraph <- MCBoth
SPECIFICATION Spec
INVARIANTS
  HeldSkippedByAlertOnly
  OrdersComeFromTrader
  DebateIsWhole
  HypothesisMatchesOrder
PROPERTIES
  GraphEnds
CHECK_DEADLOCK FALSE
