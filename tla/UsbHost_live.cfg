SPECIFICATION FairSpec
CONSTANTS
  Names <- MC_Key
  Ins <- MC_Key
  NoName = NoName
  EP_POOL_CNT = 2
  MAX_SIZE = 1
  Lens <- MC_KeyLens
  Interval <- MC_KeyInterval
  MaxPackets = 2
  MaxPlugs = 2
  OneCore = TRUE
  FastReplug = FALSE
PROPERTIES TransferEnds DeviceServed
