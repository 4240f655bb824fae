SPECIFICATION FairSpec
CONSTANTS
  MAX_BUFFER = 16
  WORD_SIZE = 4
  Overlap = FALSE
  PutLimit = 12
  MaxKeys = 14
  MaxGot = 15
INVARIANTS FifoInv
PROPERTIES ImplementsFifo EveryKeyDelivered
