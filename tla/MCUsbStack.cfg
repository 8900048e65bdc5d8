SPECIFICATION UsbFairSpec
CONSTANTS
  Bulk = 2
  WordBytes = 2
  SetupBytes = 4
  LineCodingBytes = 3
  MaxPacket = 3
  DescriptorBytes = 3
  ReplyBytes = 3
  Chunks = 2
  MaxHosts = 2
  MaxInbox = 3
  MaxReplies = 1
INVARIANTS Aligned FlowControlled TxfeHeld ConfiguredTruly
PROPERTIES Transferred HostServed
CHECK_DEADLOCK FALSE
