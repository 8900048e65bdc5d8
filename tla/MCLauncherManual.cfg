SPECIFICATION Spec
CONSTANTS
  MaxOutput = 2
  MaxPrints = 0
  MaxChildren = 1
  MaxEdits = 3
  MaxLaunches = 0
INVARIANT ManualRuns
CHECK_DEADLOCK FALSE
