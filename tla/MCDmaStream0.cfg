SPECIFICATION Spec
CONSTANTS
  Streams <- StreamZero
  Delay = 3
  PumpInterval = 1
  MaxBlock = 1
  Directions <- Reads
  Careful <- StreamZero
INVARIANTS AskedIsArmed
