SPECIFICATION FairSpec
CONSTANTS
  FlashSize = 8
  JedecId <- MCJedec
  Width = 3
  Height = 2
  IdCommand = 211
  IdReply <- MCIdReply
  W = 8
  PerTick = 2
  Foci = {"pins", "spi", "display", "tim5", "dwt", "tim6", "adc", "boot"}
  Messages <- MCMessages
  MaxAborts = 1
  MaxOps = 11
  MaxClock = 20
  SvdBlocks <- MCSvd
INVARIANTS StoresExact DevicesAnswer PaintedInOrder ScanAligned
PROPERTIES TimeHonest MatchOnTime Boots
CHECK_DEADLOCK FALSE
