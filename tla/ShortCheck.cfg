CONSTANTS
  Candidates <- MCCandidates
  Secids <- MCSecids
  Delay = 2
  MaxFills = 2
  MaxFaults = 4
SPECIFICATION Spec
INVARIANTS
  OneSellForEachCut
  DoneMeansFlat
PROPERTIES
  BuyCoversTheSell
  CoverIsBegun
CHECK_DEADLOCK FALSE
