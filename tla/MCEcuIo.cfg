SPECIFICATION Spec
CONSTANTS
  Line <- TwoLines
  Port <- OnePort
  Outputs <- TwoOutputs
  Teeth = 2
  Missing = 1
  Half = 3
  MaxRpm = 1
  Rpms <- Speeds
  MaxDelta = 2
  Capacity = 3
  MaxEvents = 1
  MaxInputs = 1
  MaxLines = 3
  MaxReports = 3
  MaxSessions = 2
INVARIANTS LastLineCounts HostInformed NoEdgeMissed
PROPERTIES TeethDelivered
CHECK_DEADLOCK FALSE
