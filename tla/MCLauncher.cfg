SPECIFICATION Spec
CONSTANTS
  MaxOutput = 2
  MaxPrints = 2
  MaxChildren = 2
  MaxEdits = 2
  MaxLaunches = 2
INVARIANTS NothingSkipped StatusTruthful
PROPERTIES LossShown Restored
CHECK_DEADLOCK FALSE
