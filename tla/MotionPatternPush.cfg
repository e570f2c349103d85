SPECIFICATION FaultSpec
CONSTANTS
  NChunks = 3
  NMax = 3
  Bit <- MCBit
  WrittenBits <- MCWrittenBits
  Segment <- MCStepSegment
  PowerLossAt <- MCNotErase
  PgErrors = FALSE
INVARIANT StoredAsAcknowledged
