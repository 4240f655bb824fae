SPECIFICATION Spec
CONSTANTS
  Names <- MC_Names
  Ins <- MC_Ins
  NoName = NoName
  EP_POOL_CNT = 2
  MAX_SIZE = 1
  Lens <- MC_Lens
  Interval <- MC_Interval
  MaxPackets = 2
  MaxPlugs = 2
  OneCore = TRUE
  FastReplug = FALSE
INVARIANTS NoTransferForgotten OneOutcome DeviceKnown
PROPERTY ImplementsPipe
