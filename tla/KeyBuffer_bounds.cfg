\* Both cores interleave freely; when the bounds are used up both are idle,
\* as on a console that is switched off.
SPECIFICATION Spec
CONSTANTS
  MAX_BUFFER = 4
  WORD_SIZE = 2
  Overlap = TRUE
  PutLimit = 4
  MaxKeys = 4
  MaxGot = 4
INVARIANTS TypeOK IndexInBounds
CHECK_DEADLOCK FALSE
