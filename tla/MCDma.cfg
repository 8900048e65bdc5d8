SPECIFICATION Spec
CONSTANTS
  Streams <- TwoStreams
  Delay = 5
  PumpInterval = 2
  MaxBlock = 2
  Directions <- Both
  Careful <- LastStream
INVARIANTS EnTruthful FlagsTruthful Scheduled
PROPERTY CompletionWindow
