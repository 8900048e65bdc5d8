SPECIFICATION BoardFairSpec
CONSTANTS
  Streams <- TwoStreams
  Delay = 16
  PumpInterval = 2
  MaxBlock = 2
  Directions = {"read"}
  Careful <- TwoStreams
  HandlerBlocks = 2
INVARIANTS CompletionDelivered
PROPERTY Responsive
