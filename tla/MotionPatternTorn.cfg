SPECIFICATION FaultSpec
CONSTANTS
  NChunks = 2
  NMax = 2
  Bit <- MCBit
  WrittenBits <- MCWrittenBits
  Segment <- MCStepSegment
  PowerLossAt <- MCAnywhere
  PgErrors = TRUE
INVARIANTS TypeOK Layout
PROPERTIES NothingLost StoreUntilFault
